---- MODULE Spec2Model ----
(***************************************************************************)
(* The /rpc endpoint of toyMCP: express.json() and its syntax-error        *)
(* middleware (server.js), the router's pre-check and its use of           *)
(* JSONRPCServer.receive (mcp_router.js), the registered methods           *)
(* (mcp_methods.js) and the todos table they query; and /auth/login with   *)
(* the passport strategies (auth_router.js, passport config) that issue    *)
(* and check the bearer tokens of /rpc against the users table.            *)
(*                                                                         *)
(* A request is handled in one synchronous step up to the first            *)
(* `await db.query(...)`; a request suspended there sits in `pending`      *)
(* until the store answers (or fails), and the continuation then builds    *)
(* and sends the response.  `last` is the most recent HTTP exchange:       *)
(* the payload received and the response sent for it.                      *)
(***************************************************************************)
EXTENDS Integers, Sequences, FiniteSets, TLC

VARIABLES pending, started, todos, nextId, now, last, notified,
          users, issued, gate, login, boot, schema, seeding

vars == <<pending, started, todos, nextId, now, last, notified,
          users, issued, gate, login, boot, schema, seeding>>

\* the users table, the tokens handed out by /auth/login, the decision of
\* the token check on the most recent /rpc call and the most recent
\* /auth/login exchange
authVars == <<users, issued, gate, login>>

\* the start of the process (the call of initializeDatabase in progress and
\* whether the server listens), the tables and indexes of the database,
\* and the runs of seedDefaultUser with the sequence behind users.id
startVars == <<boot, schema, seeding>>

(* ---- bounds ---- *)

\* requests suspended on a store query at the same time
MaxPending == 2

\* ids the todos_id_seq sequence hands out in a run
MaxId == 2

\* hours the clock `now` is advanced by the passing of time
MaxNow == 2

(* ---- error codes ---- *)

PARSE_ERROR == -32700

INVALID_REQUEST == -32600

METHOD_NOT_FOUND == -32601

INVALID_PARAMS == -32602

TODO_NOT_FOUND_ERROR_CODE == 1001

(* ---- text ---- *)

\* variant: only the leading blanks are removed (String.prototype.trimStart)
RECURSIVE trimStart(_)
trimStart(s) ==
    IF s = <<>> THEN s
    ELSE IF Head(s) = " " THEN trimStart(Tail(s))
    ELSE s

\* String.prototype.trim on a text given as a sequence of characters
RECURSIVE trim(_)
trim(s) ==
    IF s = <<>> THEN s
    ELSE IF Head(s) = " " THEN trim(Tail(s))
    ELSE IF s[Len(s)] = " " THEN trim(SubSeq(s, 1, Len(s) - 1))
    ELSE s

(* ---- payloads ---- *)

\* params.text / params.id as JavaScript sees them: a type tag and a value
Undefined == [ty |-> "undefined", s |-> <<>>, n |-> 0]

Str(s) == [ty |-> "string", s |-> s, n |-> 0]

Num(n) == [ty |-> "number", s |-> <<>>, n |-> n]

\* the JSON number 1.5: a number that is not an integer, kept as its digits
Fraction == [ty |-> "number", s |-> <<"1", ".", "5">>, n |-> 0]

NoParams == [present |-> FALSE, text |-> Undefined, id |-> Undefined]

Params(text, id) == [present |-> TRUE, text |-> text, id |-> id]

\* a request body: `kind` is what the bytes are, the other fields are the
\* members of an object body ("absent" = no such member)
Body(kind, jsonrpc, method, id, params, extra) ==
    [kind |-> kind, jsonrpc |-> jsonrpc, method |-> method, id |-> id,
     params |-> params, extra |-> extra]

Raw(kind) == Body(kind, "absent", "absent", "absent", NoParams, "none")

Req(method, id, params) == Body("object", "2.0", method, id, params, "none")

NoPayload == Raw("none")

RawPayloads == {Raw("garbage"), Raw("primitive"), Raw("array")}

NoMethodPayloads ==
    {Body("object", v, "absent", i, NoParams, "none") :
        v \in {"2.0", "absent"}, i \in {"absent", "null", "n1", "s1", "object"}}
    \cup {Body("object", "2.0", "absent", "n1", Params(Undefined, Undefined), "none")}

BadEnvelopePayloads ==
    {Body("object", "absent", "todo.add", i, Params(Str(<<"a">>), Undefined), "none") :
        i \in {"absent", "n1"}}
    \cup {Body("object", "2.0", "todo.list", "n1", NoParams, x) : x \in {"result", "error"}}

NonStringMethodPayloads ==
    {Req("number", i, NoParams) : i \in {"absent", "null", "n1"}}

\* methods that were not registered: a name of no property, and names of
\* inherited properties
UnknownMethodPayloads ==
    {Req("nonexistent.method", i, NoParams) : i \in {"absent", "null", "n1", "s1"}}
    \cup {Req("nonexistent.method", "n2", Params(Undefined, Undefined))}
    \cup {Req("toString", i, NoParams) : i \in {"absent", "n1"}}
    \cup {Req("constructor", "n1", Params(Undefined, Undefined))}

\* a `method` member that cannot be made a property key: the JSON object
\* {"toString": 1}
UnconvertibleMethodPayloads ==
    {Req("unconvertible", i, NoParams) : i \in {"absent", "n1"}}

\* a body longer than the limit of express.json()
OversizePayloads == {Raw("oversize")}

DiscoverPayloads ==
    {Req("mcp.discover", i, NoParams) : i \in {"absent", "null", "n1", "object"}}

ListPayloads == {Req("todo.list", i, NoParams) : i \in {"absent", "n1"}}

AddParams ==
    {NoParams, Params(Undefined, Undefined), Params(Num(123), Undefined),
     Params(Str(<<>>), Undefined), Params(Str(<<" ">>), Undefined),
     Params(Str(<<" ", "a", " ">>), Undefined)}

AddPayloads ==
    {Req("todo.add", i, p) : i \in {"absent", "null", "n1"}, p \in AddParams}

RemoveParams ==
    {NoParams, Params(Undefined, Undefined), Params(Undefined, Str(<<"1">>)),
     Params(Undefined, Num(1))}

RemovePayloads ==
    {Req("todo.remove", i, p) : i \in {"absent", "n1", "n2"}, p \in RemoveParams}
    \cup {Req("todo.remove", "n1", Params(Undefined, Fraction))}

Payloads ==
    RawPayloads \cup NoMethodPayloads \cup BadEnvelopePayloads
    \cup NonStringMethodPayloads \cup UnknownMethodPayloads
    \cup DiscoverPayloads \cup ListPayloads \cup AddPayloads \cup RemovePayloads

\* messages of the errors a store query can reject with
FaultMessages == {"connection terminated", "Database connection failed"}

(* ---- responses ---- *)

NoResult == [t |-> "none", rows |-> <<>>, names |-> {}]

\* `null` returned by server.receive, and the empty body of a 204
NullResponse ==
    [members |-> {}, id |-> "absent", code |-> 0, message |-> "", result |-> NoResult]

\* variant: an error response that also carries a result member
createJSONRPCErrorResponseWithResult(id, code, message) ==
    [members |-> {"jsonrpc", "id", "error", "result"}, id |-> id, code |-> code,
     message |-> message, result |-> NoResult]

createJSONRPCErrorResponse(id, code, message) ==
    [members |-> {"jsonrpc", "id", "error"}, id |-> id, code |-> code,
     message |-> message, result |-> NoResult]

createJSONRPCSuccessResponse(id, result) ==
    [members |-> {"jsonrpc", "id", "result"}, id |-> id, code |-> 0,
     message |-> "", result |-> result]

isJSONRPCID(id) == id \in {"null", "n1", "n2", "s1"}

isJSONRPCRequest(p) ==
    /\ p.jsonrpc = "2.0"
    /\ p.method # "absent"
    /\ p.extra = "none"

\* variant: the id of an invalid request is never echoed
createInvalidRequestResponseNullId(p) ==
    createJSONRPCErrorResponse("null", INVALID_REQUEST, "Invalid Request")

createInvalidRequestResponse(p) ==
    createJSONRPCErrorResponse(IF isJSONRPCID(p.id) THEN p.id ELSE "null",
                               INVALID_REQUEST, "Invalid Request")

createMethodNotFoundResponse(id) ==
    createJSONRPCErrorResponse(id, METHOD_NOT_FOUND, "Method not found")

\* variant: the result is sent under a null id
mapResultToJSONRPCResponseLosesId(id, result) ==
    IF id # "absent" THEN createJSONRPCSuccessResponse("null", result) ELSE NullResponse

\* variant: a null id is taken for a missing id
mapResultToJSONRPCResponseNullIsAbsent(id, result) ==
    IF id \notin {"absent", "null"} THEN createJSONRPCSuccessResponse(id, result)
    ELSE NullResponse

mapResultToJSONRPCResponse(id, result) ==
    IF id # "absent" THEN createJSONRPCSuccessResponse(id, result) ELSE NullResponse

\* an error thrown by a handler: a JSONRPCErrorException (rpc) with its
\* code, or any other error (a rejected store query)
JSONRPCErrorException(message, code) == [rpc |-> TRUE, code |-> code, message |-> message]

StoreError(message) == [rpc |-> FALSE, code |-> 0, message |-> message]

\* the TypeError thrown in callMethod when what the method returned has no
\* `then`
notAPromise ==
    [rpc |-> FALSE, code |-> 0,
     message |-> "(this.middleware || noopMiddleware)(...).then is not a function"]

defaultMapErrorToJSONRPCErrorResponse(id, err) ==
    createJSONRPCErrorResponse(id, IF err.rpc THEN err.code ELSE 0,
                               err.message)

\* variant: an error is reported also when the request has no id
mapErrorToJSONRPCErrorResponseAlways(id, err) ==
    defaultMapErrorToJSONRPCErrorResponse(IF id # "absent" THEN id ELSE "null", err)

mapErrorToJSONRPCErrorResponseIfNecessary(id, err) ==
    IF id # "absent" THEN defaultMapErrorToJSONRPCErrorResponse(id, err)
    ELSE NullResponse

(* ---- schema initialization: schema.sql and the call in progress ---- *)

\* retries of initializeDatabase when the caller gives none
defaultRetries == 5

\* largest `retries` a direct caller of initializeDatabase passes
MaxRetries == 2

Tables == {"todos", "users"}

Indexes == {"idx_users_username", "idx_todos_created_at"}

AllObjects == Tables \cup Indexes

\* a piece of schema.sql: what it does, to which object, on which table
Statement(op, obj, on) == [op |-> op, obj |-> obj, on |-> on]

Semicolon == Statement(";", "", "")

\* schema.sql as its statements and the semicolons that end them; the
\* last line is a comment that ends with a semicolon, followed by a blank
schemaSql ==
    <<Statement("drop table", "todos", ""), Semicolon,
      Statement("drop table", "users", ""), Semicolon,
      Statement("create table", "users", ""), Semicolon,
      Statement("create table", "todos", ""), Semicolon,
      Statement("create index", "idx_users_username", "users"), Semicolon,
      Statement("create index", "idx_todos_created_at", "todos"), Semicolon,
      Statement("comment", "", ""), Semicolon,
      Statement("blank", "", "")>>

\* variant: the pieces are taken from the end of the file to its start
statementsBackwards ==
    LET kept == SelectSeq(SelectSeq(schemaSql, LAMBDA x : x.op # ";"),
                          LAMBDA x : x.op # "blank")
    IN [k \in 1..Len(kept) |-> kept[Len(kept) + 1 - k]]

\* schemaSql.split(';').filter(s => s.trim() !== '')
statements ==
    SelectSeq(SelectSeq(schemaSql, LAMBDA x : x.op # ";"),
              LAMBDA x : x.op # "blank")

\* the database: its tables and indexes, the rows of both tables, the
\* next value of todos_id_seq and the next value of users_id_seq
Store(objects, todoRows, userRows, seq, applied, userSeq) ==
    [schema |-> objects, todos |-> todoRows, users |-> userRows,
     nextId |-> seq, notified |-> applied, userSeq |-> userSeq]

\* the effect of one statement of schema.sql on the database; a table is
\* dropped with the sequence of its id column, which starts at 1 again
\* when the table is created
execute(st, db) ==
    IF st.op = "drop table"
    THEN LET left == db.schema \ ({st.obj} \cup
                        {x \in Indexes : (st.obj = "todos" /\ x = "idx_todos_created_at")
                                          \/ (st.obj = "users" /\ x = "idx_users_username")})
         IN IF st.obj = "todos"
            THEN Store(left, {}, db.users, 1, {}, db.userSeq)
            ELSE Store(left, db.todos, {}, db.nextId, db.notified, 1)
    ELSE IF st.op \in {"create table", "create index"}
    THEN [db EXCEPT !.schema = db.schema \cup {st.obj}]
    ELSE db

\* the call of initializeDatabase in progress and the state of the server:
\* who called, where the call is, its `retries` and loop index i, the
\* statement being executed, the calls of pool.connect so far, the errors
\* of the failed attempts, the error thrown, whether the server listens,
\* for each attempt what became of its client ("connecting", "none" when
\* pool.connect rejected, "held", "released"), and the delays waited
Boot(caller, phase, retries, i, stmt, attempts, errs, thrown, server, clients, delays) ==
    [caller |-> caller, phase |-> phase, retries |-> retries, i |-> i,
     stmt |-> stmt, attempts |-> attempts, errs |-> errs, thrown |-> thrown,
     server |-> server, clients |-> clients, delays |-> delays]

\* no process is running
Off == Boot("none", "off", 0, 0, 0, 0, <<>>, "", "down", <<>>, 0)

\* startServer has initialized the schema at the first attempt and listens
Listening ==
    Boot("startServer", "resolved", defaultRetries, 0, 0, 1, <<>>, "", "listening",
         <<"released">>, 0)

\* callers of seedDefaultUser whose runs can be in progress together
MaxSeeds == 3

\* a run of seedDefaultUser: where it is ("idle", "select", "hash",
\* "insert", "returned", "threw") and how it ended
SeedRun(phase, outcome) == [phase |-> phase, outcome |-> outcome]

\* no run has started; seq is the next value of users_id_seq
Seeding(seq) == [runs |-> [r \in 1..MaxSeeds |-> SeedRun("idle", "")], seq |-> seq]

(* ---- the registered methods ---- *)

methods == {"mcp.discover", "todo.list", "todo.add", "todo.remove"}

\* variant: the document does not list mcp.discover
discoverMethodsOmitsItself == {"todo.list", "todo.add", "todo.remove"}

\* names listed in the document mcp.discover returns
discoverMethods == {"todo.list", "todo.add", "todo.remove", "mcp.discover"}

mcpDiscover == [t |-> "doc", rows |-> <<>>, names |-> discoverMethods]

todoAddInvalid(params) ==
    \/ ~params.present
    \/ params.text.ty # "string"
    \/ trim(params.text.s) = <<>>

todoAddError(params) ==
    JSONRPCErrorException(
        IF ~params.present \/ params.text.ty = "undefined"
        THEN "Missing required parameter: text"
        ELSE "Parameter \"text\" must be a non-empty string",
        INVALID_PARAMS)

\* variant: only the presence of params is examined
todoRemoveInvalidParamsOnly(params) == ~params.present

todoRemoveInvalid(params) ==
    \/ ~params.present
    \/ params.id.ty # "number"

todoRemoveError(params) ==
    JSONRPCErrorException(
        IF ~params.present \/ params.id.ty = "undefined"
        THEN "Missing required parameter: id"
        ELSE "Parameter \"id\" must be a number",
        INVALID_PARAMS)

RECURSIVE concat(_)
concat(chars) == IF chars = <<>> THEN "" ELSE Head(chars) \o concat(Tail(chars))

\* the text of a number, as a template literal and the store's driver write it
numberText(v) == IF v.s = <<>> THEN ToString(v.n) ELSE concat(v.s)

todoNotFound(id) ==
    JSONRPCErrorException("Todo item with ID " \o numberText(id) \o " not found",
                          TODO_NOT_FOUND_ERROR_CODE)

\* the store's rejection of a value that is no integer (SQLSTATE 22P02)
invalidInteger(id) ==
    StoreError("invalid input syntax for type integer: \"" \o numberText(id) \o "\"")

(* ---- the store ---- *)

Row(id, text, at) == [id |-> id, text |-> text, completed |-> FALSE, created_at |-> at]

RECURSIVE Perms(_)
Perms(S) ==
    IF S = {} THEN {<<>>}
    ELSE UNION {{<<x>> \o s : s \in Perms(S \ {x})} : x \in S}

\* SELECT * FROM todos ORDER BY created_at ASC: every order of the rows
\* that is ascending in created_at (rows with equal created_at in any order)
selectOrdered(rows) ==
    {s \in Perms(rows) :
        \A i \in 1..Len(s), j \in 1..Len(s) :
            i < j => s[i].created_at <= s[j].created_at}

(* ---- the HTTP layer ---- *)

Http(status, body) == [status |-> status, body |-> body]

\* express.json() in its default strict mode rejects a body that is not
\* valid JSON, and one whose top-level value is a primitive, with a
\* SyntaxError (status 400), and a body over its size limit with a
\* PayloadTooLargeError (status 413)
expressJsonRejects(p) == p.kind \in {"garbage", "primitive", "oversize"}

\* the error express.json() passes on is a SyntaxError
isSyntaxError(p) == p.kind \in {"garbage", "primitive"}

\* server.js: the global error handler, status 500 with the error's message
globalErrorHandler(message) ==
    Http(500, [members |-> {"error"}, id |-> "absent", code |-> 0,
               message |-> message, result |-> NoResult])

\* server.js: the middleware that answers a body-parser SyntaxError
syntaxErrorHandler ==
    Http(200, createJSONRPCErrorResponse("null", PARSE_ERROR,
                                         "Parse error: Invalid JSON received."))

\* server.js: the error of express.json() goes through the error
\* middleware: the syntax-error handler answers a SyntaxError and passes
\* any other error on to the global error handler
errorMiddleware(p) ==
    IF isSyntaxError(p) THEN syntaxErrorHandler
    ELSE globalErrorHandler("request entity too large")

\* router.post('/'): the pre-check on req.body and its answer
preCheckFails(p) == p.kind # "object"

\* variant: the pre-check answers with InvalidRequest
preCheckResponseInvalidRequest ==
    Http(200, createJSONRPCErrorResponse("null", INVALID_REQUEST, "Invalid Request"))

preCheckResponse ==
    Http(200, createJSONRPCErrorResponse("null", PARSE_ERROR,
                                         "Parse error: Invalid JSON received."))

\* variant: an error response that carries no JSON-RPC code of its own is
\* sent with status 500
sendFaultAs500(jsonRPCResponse) ==
    IF jsonRPCResponse.members = {} THEN Http(204, NullResponse)
    ELSE IF "error" \in jsonRPCResponse.members /\ jsonRPCResponse.code = 0
         THEN Http(500, jsonRPCResponse)
    ELSE Http(200, jsonRPCResponse)

\* router.post('/'), the .then of server.receive: res.json(jsonRPCResponse)
\* or res.sendStatus(204)
send(jsonRPCResponse) ==
    IF jsonRPCResponse.members # {} THEN Http(200, jsonRPCResponse)
    ELSE Http(204, NullResponse)

\* router.post('/'), the .catch of server.receive: status 500 and an error
\* with code -32000 under the id member of the body, which JSON leaves out
\* when the body has none
sendCatch(p) ==
    Http(500, [members |-> {"jsonrpc", "error"}
                           \cup (IF p.id = "absent" THEN {} ELSE {"id"}),
               id |-> p.id, code |-> -32000,
               message |-> "Internal Server Error during RPC processing",
               result |-> NoResult])

\* the exchange recorded in `last`; fault: the store query of the request
\* was rejected
Exchange(p, http, fault) ==
    [req |-> p, status |-> http.status, body |-> http.body, fault |-> fault]

\* the synchronous part of a registered handler, when it does not reach
\* the store: the value it resolves to or the error it throws
handlerSync(p) ==
    IF p.method = "mcp.discover" THEN mapResultToJSONRPCResponse(p.id, mcpDiscover)
    ELSE IF p.method = "todo.add"
         THEN mapErrorToJSONRPCErrorResponseIfNecessary(p.id, todoAddError(p.params))
    ELSE mapErrorToJSONRPCErrorResponseIfNecessary(p.id, todoRemoveError(p.params))

\* this.nameToMethodDictionary[request.method], a lookup in a plain
\* object: it throws when the method cannot be made a property key, finds
\* a registered method under its name and an inherited property under the
\* name of one, and is undefined otherwise (also for a number, or when the
\* body has no method)
lookup(method) ==
    IF method = "unconvertible" THEN "throws"
    ELSE IF method \in methods THEN "registered"
    ELSE IF method \in {"toString", "constructor"} THEN "inherited"
    ELSE "undefined"

\* JSONRPCServer.callMethod: what the lookup found is called.  A registered
\* method is the handler; an inherited property (toString, constructor)
\* returns a value without `then`, and the TypeError of that is mapped
\* like an error of a handler; when nothing was found the answer is
\* MethodNotFound for a request with an id, and nothing otherwise
callMethod(p) ==
    IF lookup(p.method) = "registered" THEN handlerSync(p)
    ELSE IF lookup(p.method) = "inherited"
         THEN mapErrorToJSONRPCErrorResponseIfNecessary(p.id, notAPromise)
    ELSE IF p.id # "absent" THEN createMethodNotFoundResponse(p.id)
    ELSE NullResponse

\* JSONRPCServer.receiveSingle, when the lookup did not throw
receiveSingle(p) ==
    IF ~isJSONRPCRequest(p) THEN createInvalidRequestResponse(p)
    ELSE callMethod(p)

\* does the handler of p reach `await db.query(...)`
suspends(p) ==
    /\ ~expressJsonRejects(p)
    /\ ~preCheckFails(p)
    /\ isJSONRPCRequest(p)
    /\ \/ p.method = "todo.list"
       \/ p.method = "todo.add" /\ ~todoAddInvalid(p.params)
       \/ p.method = "todo.remove" /\ ~todoRemoveInvalid(p.params)

\* the response to a request that is answered without a store query
immediate(p) ==
    IF expressJsonRejects(p) THEN errorMiddleware(p)
    ELSE IF preCheckFails(p) THEN preCheckResponse
    ELSE IF lookup(p.method) = "throws" THEN sendCatch(p)
    ELSE send(receiveSingle(p))

pendingAdds == Cardinality({q \in pending : q.method = "todo.add"})

(* ---- users, passwords and tokens ---- *)

DEFAULT_USERNAME == "testuser"

DEFAULT_PASSWORD == "password123"

\* config.auth.tokenExpiresIn, in hours
TokenExpiresIn == 1

\* config.auth.jwtSecret, and a key that is not the server's
jwtSecret == "JWT_SECRET"

OtherSecret == "another secret"

\* bcrypt.hash and bcrypt.compare: the hash is not the password, and a
\* password matches exactly the hashes made from it
bcryptHash(password) == <<"$2b$10$", password>>

bcryptCompare(password, hash) == hash = bcryptHash(password)

\* a row of the users table (id SERIAL, username UNIQUE, password_hash)
UserRow(id, username, password) ==
    [id |-> id, username |-> username, password_hash |-> bcryptHash(password)]

\* the row seedDefaultUser inserts into a fresh table
DefaultUser == UserRow(1, DEFAULT_USERNAME, DEFAULT_PASSWORD)

\* req.user, and its absence
Identity(id, username) == [id |-> id, username |-> username]

NoUser == Identity(0, "")

\* jwt.sign(payload, secret, {expiresIn}): the claims and the key of the
\* signature
jwtSign(payload, secretOrPrivateKey, iat) ==
    [id |-> payload.id, username |-> payload.username,
     iat |-> iat, exp |-> iat + TokenExpiresIn, key |-> secretOrPrivateKey]

\* no token, and a string that is not a JWT
NoToken == [id |-> 0, username |-> "", iat |-> 0, exp |-> 0, key |-> "none"]

NotAToken == [id |-> 0, username |-> "", iat |-> 0, exp |-> 0, key |-> "malformed"]

\* the Authorization header of a call
NoHeader == [scheme |-> "none", token |-> NoToken]

Bearer(token) == [scheme |-> "bearer", token |-> token]

\* a token for the default user made by someone without the server's key
ForgedToken == jwtSign(Identity(1, DEFAULT_USERNAME), OtherSecret, 0)

\* the headers a caller can send: none, a bearer string
\* that is no JWT, a forged token, or a token a login returned
Headers ==
    {NoHeader, Bearer(NotAToken), Bearer(ForgedToken)}
    \cup {Bearer(t) : t \in issued}

\* ExtractJwt.fromAuthHeaderAsBearerToken()
fromAuthHeaderAsBearerToken(h) ==
    IF h.scheme = "bearer" THEN h.token ELSE NoToken

\* jwt.verify(token, secretOrKey): the signature was made with the key and
\* the token has not expired
jwtVerify(token, secretOrKey, clock) ==
    /\ token.key = secretOrKey
    /\ clock < token.exp

\* what a strategy tells passport: fail, error or success with a user
Outcome(outcome, user, message) ==
    [outcome |-> outcome, user |-> user, message |-> message]

\* a store query of the strategies resolves (NoFault) or rejects with a
\* message
NoFault == ""

(* ---- the passport strategies ---- *)

\* variant: the verify callback trusts the claims of the token and does
\* not query the users table
jwtVerifyCallbackStateless(jwt_payload, us, m) ==
    Outcome("success", Identity(jwt_payload.id, jwt_payload.username), "")

\* the verify callback of the JwtStrategy: SELECT id, username FROM users
\* WHERE id = jwt_payload.id
jwtVerifyCallback(jwt_payload, us, m) ==
    IF m # NoFault THEN Outcome("error", NoUser, m)
    ELSE LET rows == {u \in us : u.id = jwt_payload.id} IN
         IF rows = {} THEN Outcome("fail", NoUser, "")
         ELSE LET user == CHOOSE u \in rows : TRUE IN
              Outcome("success", Identity(user.id, user.username), "")

\* JwtStrategy.authenticate: extract the token, verify it, then run the
\* verify callback on its claims
jwtStrategy(h, us, clock, m) ==
    LET token == fromAuthHeaderAsBearerToken(h) IN
    IF token = NoToken THEN Outcome("fail", NoUser, "No auth token")
    ELSE IF ~jwtVerify(token, jwtSecret, clock)
         THEN Outcome("fail", NoUser, "invalid token")
    ELSE jwtVerifyCallback(token, us, m)

\* variant: an unknown username is reported as such
localStrategyTellsCause(username, password, us, m) ==
    IF username = "" \/ password = ""
    THEN Outcome("fail", NoUser, "Missing credentials")
    ELSE IF m # NoFault THEN Outcome("error", NoUser, m)
    ELSE LET rows == {u \in us : u.username = username} IN
         IF rows = {} THEN Outcome("fail", NoUser, "Unknown user.")
         ELSE LET user == CHOOSE u \in rows : TRUE IN
              IF ~bcryptCompare(password, user.password_hash)
              THEN Outcome("fail", NoUser, "Incorrect username or password.")
              ELSE Outcome("success", Identity(user.id, user.username), "")

\* LocalStrategy.authenticate and its verify function: missing fields,
\* then SELECT ... FROM users WHERE username = $1 and bcrypt.compare
localStrategy(username, password, us, m) ==
    IF username = "" \/ password = ""
    THEN Outcome("fail", NoUser, "Missing credentials")
    ELSE IF m # NoFault THEN Outcome("error", NoUser, m)
    ELSE LET rows == {u \in us : u.username = username} IN
         IF rows = {} THEN Outcome("fail", NoUser, "Incorrect username or password.")
         ELSE LET user == CHOOSE u \in rows : TRUE IN
              IF ~bcryptCompare(password, user.password_hash)
              THEN Outcome("fail", NoUser, "Incorrect username or password.")
              ELSE Outcome("success", Identity(user.id, user.username), "")

\* passport.authenticate('jwt', {session: false}) on a failure: status 401
\* and the text "Unauthorized"
unauthorized ==
    Http(401, [members |-> {}, id |-> "absent", code |-> 0,
               message |-> "Unauthorized", result |-> NoResult])

\* what express.json() does to the call once the token check has passed:
\* a SyntaxError is left to the syntax-error handler ("syntax"), any other
\* error of the parser reaches the global error handler like an error of
\* the token check ("error")
bodyOutcome(p, r) ==
    IF ~expressJsonRejects(p) THEN r
    ELSE IF isSyntaxError(p) THEN Outcome("syntax", NoUser, "")
    ELSE Outcome("error", NoUser, "request entity too large")

\* variant: no token check in front of the router
rpcMiddlewareNoGate(h, p, us, clock, m) ==
    bodyOutcome(p, Outcome("success", NoUser, ""))

\* variant: express.json() and the error middleware answer before the
\* token is looked at
rpcMiddlewareParseFirst(h, p, us, clock, m) ==
    IF expressJsonRejects(p) THEN bodyOutcome(p, Outcome("success", NoUser, ""))
    ELSE jwtStrategy(h, us, clock, m)

\* the middleware in front of the router of /rpc: the token check comes
\* first and rejects a call before anything looks at its body; the body of
\* a call that passed is parsed by express.json(), and the call then
\* reaches the router
rpcMiddleware(h, p, us, clock, m) ==
    LET r == jwtStrategy(h, us, clock, m) IN
    IF r.outcome # "success" THEN r
    ELSE bodyOutcome(p, r)

\* the token of the header passes ExtractJwt and jwt.verify, the
\* synchronous part of the token check
tokenVerified(h, clock) ==
    /\ fromAuthHeaderAsBearerToken(h) # NoToken
    /\ jwtVerify(fromAuthHeaderAsBearerToken(h), jwtSecret, clock)

\* the decision on the most recent /rpc call, recorded in `gate`
Gate(h, r) ==
    [header |-> h, outcome |-> r.outcome, user |-> r.user,
     phase |-> "done", req |-> NoPayload, at |-> 0]

\* a call of /rpc with body p whose token was verified at the clock `at`
\* and whose verify callback waits for its SELECT on users
GateWaiting(h, p, at) ==
    [header |-> h, outcome |-> "none", user |-> NoUser,
     phase |-> "select", req |-> p, at |-> at]

\* no row of the users table
NoRow == [id |-> 0, username |-> "", password_hash |-> <<>>]

\* the /auth/login exchange recorded in `login`, answered; fault: the users
\* query was rejected; row: what the users query returned
LoginExchange(username, password, status, message, user, token, fault) ==
    [username |-> username, password |-> password, status |-> status,
     message |-> message, user |-> user, token |-> token, fault |-> fault,
     phase |-> "answered", row |-> NoRow]

\* a call of /auth/login that waits for the users query ("select") or for
\* bcrypt.compare on the row the query returned ("compare")
LoginWaiting(username, password, phase, row) ==
    [LoginExchange(username, password, 0, "", NoUser, NoToken, FALSE)
        EXCEPT !.phase = phase, !.row = row]

\* variant: a token is signed for whoever asked, whatever the outcome
loginCallbackAlwaysSigns(username, password, r, clock) ==
    IF r.outcome = "error"
    THEN LoginExchange(username, password, 500, r.message, NoUser, NoToken, TRUE)
    ELSE IF r.outcome = "fail"
    THEN LoginExchange(username, password, 401, r.message, NoUser,
                       jwtSign(Identity(1, username), jwtSecret, clock), FALSE)
    ELSE LoginExchange(username, password, 200, "Login successful", r.user,
                       jwtSign(Identity(r.user.id, r.user.username), jwtSecret, clock),
                       FALSE)

\* router.post('/login'): the callback given to passport.authenticate
loginCallback(username, password, r, clock) ==
    IF r.outcome = "error"
    THEN LoginExchange(username, password, 500, r.message, NoUser, NoToken, TRUE)
    ELSE IF r.outcome = "fail"
    THEN LoginExchange(username, password, 401, r.message, NoUser, NoToken, FALSE)
    ELSE LoginExchange(username, password, 200, "Login successful", r.user,
                       jwtSign(Identity(r.user.id, r.user.username), jwtSecret, clock),
                       FALSE)

(* ---- actions ---- *)

\* `started`: for every todo.add in `pending`, the clock when its INSERT
\* was sent to the store, which is when the statement starts there
NoneStarted == [q \in {} |-> 0]

begin(p) == [q \in DOMAIN started \cup {p} |-> IF q = p THEN now ELSE started[q]]

forget(p) == [q \in DOMAIN started \ {p} |-> started[q]]

Init ==
    /\ pending = {}
    /\ started = NoneStarted
    /\ todos = {}
    /\ nextId = 1
    /\ now = 0
    /\ last = Exchange(NoPayload, Http(0, NullResponse), FALSE)
    /\ notified = {}
    /\ users = {DefaultUser}
    /\ issued = {}
    /\ gate = Gate(NoHeader, Outcome("none", NoUser, ""))
    /\ login = LoginExchange("", "", 0, "", NoUser, NoToken, FALSE)
    /\ boot = Listening
    /\ schema = AllObjects
    /\ seeding = Seeding(2)

\* POST /rpc with body p, up to the response or to the first store query.
\* `pending` is a set: two suspended requests differ in method, id or
\* params.
Receive(p) ==
    IF suspends(p)
    THEN /\ Cardinality(pending) < MaxPending
         /\ p \notin pending
         /\ p.method = "todo.add" => nextId + pendingAdds <= MaxId
         /\ pending' = pending \cup {p}
         /\ started' = IF p.method = "todo.add" THEN begin(p) ELSE started
         /\ UNCHANGED <<todos, nextId, now, last, notified>>
    ELSE /\ last' = Exchange(p, immediate(p), FALSE)
         /\ UNCHANGED <<pending, started, todos, nextId, now, notified>>

\* todo.list: the SELECT resolves
ListReply(q) ==
    /\ q \in pending
    /\ q.method = "todo.list"
    /\ "todos" \in schema
    /\ \E rows \in selectOrdered(todos) :
          last' = Exchange(q, send(mapResultToJSONRPCResponse(q.id,
                      [t |-> "rows", rows |-> rows, names |-> {}])), FALSE)
    /\ pending' = pending \ {q}
    /\ started' = forget(q)
    /\ UNCHANGED <<todos, nextId, now, notified>>

\* variant: the handler of a request without id does not run
AddReplySkipsNotification(q) ==
    /\ q \in pending
    /\ q.method = "todo.add"
    /\ "todos" \in schema
    /\ IF q.id = "absent"
       THEN /\ last' = Exchange(q, send(NullResponse), FALSE)
            /\ UNCHANGED <<todos, nextId, now, notified>>
       ELSE \E at \in started[q]..(now + 1) :
               LET row == Row(nextId, trim(q.params.text.s), at) IN
               /\ todos' = todos \cup {row}
               /\ now' = (IF at > now THEN at ELSE now)
               /\ nextId' = nextId + 1
               /\ notified' = notified
               /\ last' = Exchange(q, send(mapResultToJSONRPCResponse(q.id,
                              [t |-> "row", rows |-> <<row>>, names |-> {}])), FALSE)
    /\ pending' = pending \ {q}
    /\ started' = forget(q)

\* variant: the insert replaces the rows that have the same text
AddReplyReplacesSameText(q) ==
    /\ q \in pending
    /\ q.method = "todo.add"
    /\ "todos" \in schema
    /\ \E at \in started[q]..(now + 1) :
          LET row == Row(nextId, trim(q.params.text.s), at) IN
          /\ todos' = {r \in todos : r.text # row.text} \cup {row}
          /\ now' = (IF at > now THEN at ELSE now)
          /\ last' = Exchange(q, send(mapResultToJSONRPCResponse(q.id,
                         [t |-> "row", rows |-> <<row>>, names |-> {}])), FALSE)
    /\ nextId' = nextId + 1
    /\ notified' = IF q.id = "absent" THEN notified \cup {nextId} ELSE notified
    /\ pending' = pending \ {q}
    /\ started' = forget(q)

\* todo.add: the INSERT ... RETURNING * resolves.  The id is the next value
\* of the sequence when the row is inserted; created_at is
\* CURRENT_TIMESTAMP, the time the statement started, between the time it
\* was sent and now (or the hour that begins now).  Of two statements the
\* pool runs together, the one that started first can insert last.
AddReply(q) ==
    /\ q \in pending
    /\ q.method = "todo.add"
    /\ "todos" \in schema
    /\ \E at \in started[q]..(now + 1) :
          LET row == Row(nextId, trim(q.params.text.s), at) IN
          /\ todos' = todos \cup {row}
          /\ now' = (IF at > now THEN at ELSE now)
          /\ last' = Exchange(q, send(mapResultToJSONRPCResponse(q.id,
                         [t |-> "row", rows |-> <<row>>, names |-> {}])), FALSE)
    /\ nextId' = nextId + 1
    /\ notified' = IF q.id = "absent" THEN notified \cup {nextId} ELSE notified
    /\ pending' = pending \ {q}
    /\ started' = forget(q)

\* the value bound to $1 is one the integer column `id` can be compared
\* with; the store rejects the statement otherwise
isInteger(v) == v.s = <<>>

\* variant: DELETE FROM todos WHERE id >= $1
RemoveReplyDeletesNewer(q) ==
    /\ q \in pending
    /\ q.method = "todo.remove"
    /\ "todos" \in schema
    /\ IF ~isInteger(q.params.id)
       THEN /\ last' = Exchange(q, send(mapErrorToJSONRPCErrorResponseIfNecessary(
                           q.id, invalidInteger(q.params.id))),
                           TRUE)
            /\ UNCHANGED todos
       ELSE LET hit == {r \in todos : r.id = q.params.id.n} IN
            IF hit = {}
            THEN /\ last' = Exchange(q, send(mapErrorToJSONRPCErrorResponseIfNecessary(
                                q.id, todoNotFound(q.params.id))), FALSE)
                 /\ UNCHANGED todos
            ELSE /\ \E row \in hit :
                       last' = Exchange(q, send(mapResultToJSONRPCResponse(q.id,
                                   [t |-> "row", rows |-> <<row>>, names |-> {}])), FALSE)
                 /\ todos' = {r \in todos : r.id < q.params.id.n}
    /\ pending' = pending \ {q}
    /\ started' = forget(q)
    /\ UNCHANGED <<nextId, now, notified>>

\* variant: the row is read and returned, and deleted by a later statement
RemoveReplyKeepsRow(q) ==
    /\ q \in pending
    /\ q.method = "todo.remove"
    /\ "todos" \in schema
    /\ IF ~isInteger(q.params.id)
       THEN last' = Exchange(q, send(mapErrorToJSONRPCErrorResponseIfNecessary(
                        q.id, invalidInteger(q.params.id))),
                        TRUE)
       ELSE LET hit == {r \in todos : r.id = q.params.id.n} IN
            IF hit = {}
            THEN last' = Exchange(q, send(mapErrorToJSONRPCErrorResponseIfNecessary(
                             q.id, todoNotFound(q.params.id))), FALSE)
            ELSE \E row \in hit :
                    last' = Exchange(q, send(mapResultToJSONRPCResponse(q.id,
                                [t |-> "row", rows |-> <<row>>, names |-> {}])), FALSE)
    /\ pending' = pending \ {q}
    /\ started' = forget(q)
    /\ UNCHANGED <<todos, nextId, now, notified>>

\* todo.remove: the DELETE ... RETURNING * resolves, or is rejected because
\* the id is not an integer
RemoveReply(q) ==
    /\ q \in pending
    /\ q.method = "todo.remove"
    /\ "todos" \in schema
    /\ IF ~isInteger(q.params.id)
       THEN /\ last' = Exchange(q, send(mapErrorToJSONRPCErrorResponseIfNecessary(
                           q.id, invalidInteger(q.params.id))),
                           TRUE)
            /\ UNCHANGED todos
       ELSE LET hit == {r \in todos : r.id = q.params.id.n} IN
            IF hit = {}
            THEN /\ last' = Exchange(q, send(mapErrorToJSONRPCErrorResponseIfNecessary(
                                q.id, todoNotFound(q.params.id))), FALSE)
                 /\ UNCHANGED todos
            ELSE /\ \E row \in hit :
                       last' = Exchange(q, send(mapResultToJSONRPCResponse(q.id,
                                   [t |-> "row", rows |-> <<row>>, names |-> {}])), FALSE)
                 /\ todos' = todos \ hit
    /\ pending' = pending \ {q}
    /\ started' = forget(q)
    /\ UNCHANGED <<nextId, now, notified>>

\* what a query on todos can reject with: an error of the connection, or
\* that the table does not exist
storeFaults ==
    IF "todos" \in schema THEN FaultMessages
    ELSE {"relation \"todos\" does not exist"}

\* variant: the rejection is logged and no response is sent
QueryFaultUnanswered(q) ==
    /\ q \in pending
    /\ pending' = pending \ {q}
    /\ started' = forget(q)
    /\ UNCHANGED <<todos, nextId, now, last, notified>>

\* the store query of a suspended request rejects
QueryFault(q) ==
    /\ q \in pending
    /\ \E m \in storeFaults :
          last' = Exchange(q, send(mapErrorToJSONRPCErrorResponseIfNecessary(
                      q.id, StoreError(m))), TRUE)
    /\ pending' = pending \ {q}
    /\ started' = forget(q)
    /\ UNCHANGED <<todos, nextId, now, notified>>

\* the calls of a caller whose token passes the check on every call
Next ==
    \/ \E p \in Payloads : Receive(p) /\ UNCHANGED <<authVars, startVars>>
    \/ \E q \in pending : ListReply(q) /\ UNCHANGED <<authVars, startVars>>
    \/ \E q \in pending : AddReply(q) /\ UNCHANGED <<authVars, startVars>>
    \/ \E q \in pending : RemoveReply(q) /\ UNCHANGED <<authVars, startVars>>
    \/ \E q \in pending : QueryFault(q) /\ UNCHANGED <<authVars, startVars>>

Spec == Init /\ [][Next]_vars

TypeOK ==
    /\ pending \subseteq Payloads
    /\ Cardinality(pending) <= MaxPending
    /\ nextId \in 1..(MaxId + 1)
    /\ last.status \in {0, 200, 204}

(* ---- todo.add over all short texts ---- *)

\* longest text of a todo.add request
MaxLen == 3

RECURSIVE Texts(_)
Texts(n) ==
    IF n = 0 THEN {<<>>}
    ELSE Texts(n - 1)
         \cup {Append(t, c) : t \in {u \in Texts(n - 1) : Len(u) = n - 1},
                               c \in {" ", "a"}}

\* todo.add requests and notifications with every text up to MaxLen
AddTextPayloads ==
    {Req("todo.add", i, Params(Str(t), Undefined)) :
        i \in {"absent", "n1"}, t \in Texts(MaxLen)}

NextAdd ==
    \/ \E p \in AddTextPayloads : Receive(p) /\ UNCHANGED <<authVars, startVars>>
    \/ \E q \in pending : AddReply(q) /\ UNCHANGED <<authVars, startVars>>
    \/ \E q \in pending : QueryFault(q) /\ UNCHANGED <<authVars, startVars>>

SpecAdd == Init /\ [][NextAdd]_vars

\* adds and removes that are in flight together: two adds of the same
\* text and removes of the ids 1 and 2
ConcurrentPayloads ==
    {Req("todo.add", i, Params(Str(<<"a">>), Undefined)) : i \in {"n1", "n2"}}
    \cup {Req("todo.remove", "n1", Params(Undefined, Num(1))),
          Req("todo.remove", "n2", Params(Undefined, Num(2)))}

NextConcurrent ==
    \/ \E p \in ConcurrentPayloads : Receive(p) /\ UNCHANGED <<authVars, startVars>>
    \/ \E q \in pending : AddReply(q) /\ UNCHANGED <<authVars, startVars>>
    \/ \E q \in pending : RemoveReply(q) /\ UNCHANGED <<authVars, startVars>>

SpecConcurrent == Init /\ [][NextConcurrent]_vars

\* requests of every kind of outcome: an unparseable body, requests that
\* are answered without the store, and requests that wait for the store
RunPayloads ==
    {Raw("garbage"),
     Req("mcp.discover", "n1", NoParams),
     Req("todo.list", "n1", NoParams),
     Req("todo.add", "n1", Params(Str(<<"a">>), Undefined)),
     Req("todo.add", "absent", Params(Str(<<"a">>), Undefined)),
     Req("todo.add", "n1", NoParams),
     Req("todo.remove", "n1", Params(Undefined, Num(1))),
     Req("todo.remove", "n1", Params(Undefined, Str(<<"1">>)))}

\* the store answers the query of the suspended request q, or fails it
settle(q) ==
    /\ \/ ListReply(q)
       \/ AddReply(q)
       \/ RemoveReply(q)
       \/ QueryFault(q)
    /\ UNCHANGED <<authVars, startVars>>

NextRun ==
    \/ \E p \in RunPayloads : Receive(p) /\ UNCHANGED <<authVars, startVars>>
    \/ \E q \in pending : ListReply(q) /\ UNCHANGED <<authVars, startVars>>
    \/ \E q \in pending : AddReply(q) /\ UNCHANGED <<authVars, startVars>>
    \/ \E q \in pending : RemoveReply(q) /\ UNCHANGED <<authVars, startVars>>
    \/ \E q \in pending : QueryFault(q) /\ UNCHANGED <<authVars, startVars>>

SpecRun == Init /\ [][NextRun]_vars

\* every store call eventually returns or fails
SpecRunFair == SpecRun /\ \A q \in RunPayloads : WF_vars(settle(q))

(* ---- todo.list and todo.remove on a store of several rows ---- *)

\* the rows in the store at the start of these runs
MaxRows == 3

\* a store that MaxRows adds of the text "a" have filled, each row created
\* in the hour 0 or in the hour 1: rows of the same hour, and rows whose
\* ids and hours are in opposite orders, are among them
InitOrder ==
    /\ pending = {}
    /\ started = NoneStarted
    /\ \E hour \in [1..MaxRows -> 0..1] :
          todos = {Row(i, <<"a">>, hour[i]) : i \in 1..MaxRows}
    /\ nextId = MaxRows + 1
    /\ now = 1
    /\ last = Exchange(NoPayload, Http(0, NullResponse), FALSE)
    /\ notified = {}
    /\ users = {DefaultUser}
    /\ issued = {}
    /\ gate = Gate(NoHeader, Outcome("none", NoUser, ""))
    /\ login = LoginExchange("", "", 0, "", NoUser, NoToken, FALSE)
    /\ boot = Listening
    /\ schema = AllObjects
    /\ seeding = Seeding(2)

OrderPayloads ==
    {Req("todo.list", "n1", NoParams)}
    \cup {Req("todo.remove", "n1", Params(Undefined, Num(i))) : i \in 1..MaxRows}

NextOrder ==
    \/ \E p \in OrderPayloads : Receive(p) /\ UNCHANGED <<authVars, startVars>>
    \/ \E q \in pending : ListReply(q) /\ UNCHANGED <<authVars, startVars>>
    \/ \E q \in pending : RemoveReply(q) /\ UNCHANGED <<authVars, startVars>>
    \/ \E q \in pending : QueryFault(q) /\ UNCHANGED <<authVars, startVars>>

SpecOrder == InitOrder /\ [][NextOrder]_vars

(* ---- /auth/login and the token check in front of /rpc ---- *)

\* bodies sent to /rpc in the runs with the token check
AuthPayloads ==
    OversizePayloads \cup UnconvertibleMethodPayloads \cup
    {Raw("garbage"),
     Body("object", "absent", "absent", "absent", NoParams, "none"),
     Req("todo.add", "n1", Params(Str(<<" ", "a", " ">>), Undefined)),
     Req("todo.add", "absent", Params(Str(<<" ", "a", " ">>), Undefined))}

\* the fate of a users query in these runs
AuthFaults == {NoFault, "connection terminated"}

Usernames == {"", DEFAULT_USERNAME, "nonexistent"}

Passwords == {DEFAULT_PASSWORD, "wrongpassword"}

\* a query on the users table is rejected with m, or because the table
\* does not exist
usersFault(m) ==
    IF "users" \in schema THEN m ELSE "relation \"users\" does not exist"

\* variant: an error in the middleware is answered like a failed token
\* check, with 401
rpcDecidedErrorAs401(h, p, r) ==
    /\ gate' = Gate(h, r)
    /\ IF r.outcome = "success" THEN Receive(p)
       ELSE /\ last' = Exchange(p, IF r.outcome = "syntax" THEN syntaxErrorHandler
                                   ELSE unauthorized, FALSE)
            /\ UNCHANGED <<pending, started, todos, nextId, now, notified>>
    /\ UNCHANGED <<users, issued, login>>

\* the call with header h and body p leaves the middleware with the
\* decision r: it reaches the router, or it is answered by the syntax-error
\* handler, by the global error handler or with 401
rpcDecided(h, p, r) ==
    /\ gate' = Gate(h, r)
    /\ IF r.outcome = "success" THEN Receive(p)
       ELSE /\ last' = Exchange(p, IF r.outcome = "syntax" THEN syntaxErrorHandler
                                   ELSE IF r.outcome = "error"
                                        THEN globalErrorHandler(r.message)
                                   ELSE unauthorized, FALSE)
            /\ UNCHANGED <<pending, started, todos, nextId, now, notified>>
    /\ UNCHANGED <<users, issued, login>>

\* POST /rpc with Authorization header h and body p.  The token is
\* extracted and verified at once; a call whose token fails is answered
\* there, and for any other the verify callback sends its SELECT on users
\* and the call waits in `gate`
Rpc(h, p) ==
    /\ gate.phase = "done"
    /\ IF tokenVerified(h, now)
       THEN /\ gate' = GateWaiting(h, p, now)
            /\ UNCHANGED <<pending, started, todos, nextId, now, last, notified,
                           users, issued, login>>
       ELSE rpcDecided(h, p, rpcMiddleware(h, p, users, now, NoFault))

\* the SELECT of the verify callback settles; m is its fate.  The callback
\* calls done with the row it read, with false or with the error, and the
\* call goes on through the middleware
rpcSelectSettles(m) ==
    /\ gate.phase = "select"
    /\ rpcDecided(gate.header, gate.req,
                  rpcMiddleware(gate.header, gate.req, users, gate.at, usersFault(m)))

\* the call of /auth/login in `login` is answered with what the strategy
\* told passport
loginAnswer(r, row) ==
    LET x == loginCallback(login.username, login.password, r, now) IN
    /\ login' = [x EXCEPT !.row = row]
    /\ issued' = IF x.status = 200 THEN issued \cup {x.token} ELSE issued

\* POST /auth/login with body {username, password}: passport-local answers
\* a call without username or password itself; otherwise the verify
\* function sends its SELECT on users
Login(username, password) ==
    /\ login.phase = "answered"
    /\ IF username = "" \/ password = ""
       THEN LET x == loginCallback(username, password,
                        localStrategy(username, password, {}, NoFault), now) IN
            login' = x
       ELSE login' = LoginWaiting(username, password, "select", NoRow)
    /\ UNCHANGED <<pending, started, todos, nextId, now, last, notified, users, gate, issued>>

\* the SELECT of the verify function settles; m is its fate.  Without a
\* row, or when it is rejected, the call is answered; with a row,
\* bcrypt.compare is awaited
loginSelectSettles(m) ==
    /\ login.phase = "select"
    /\ LET f == usersFault(m)
           rows == {u \in users : u.username = login.username} IN
       IF f = NoFault /\ rows # {}
       THEN /\ \E row \in rows :
                  login' = LoginWaiting(login.username, login.password, "compare", row)
            /\ UNCHANGED issued
       ELSE loginAnswer(localStrategy(login.username, login.password, users, f), NoRow)
    /\ UNCHANGED <<pending, started, todos, nextId, now, last, notified, users, gate>>

\* bcrypt.compare settles: the strategy calls done, and the callback of the
\* login route signs a token for the row that was read
loginCompareSettles ==
    /\ login.phase = "compare"
    /\ loginAnswer(localStrategy(login.username, login.password, {login.row}, NoFault),
                   login.row)
    /\ UNCHANGED <<pending, started, todos, nextId, now, last, notified, users, gate>>

\* an hour passes
Tick ==
    /\ now < MaxNow
    /\ now' = now + 1
    /\ UNCHANGED <<pending, started, todos, nextId, last, notified, users, issued, gate, login>>

(* ---- the start of the process ---- *)

\* errors of pool.connect and of client.query
ConnectErrors == {"Connection failed persistently"}

QueryErrors == {"Query failed persistently"}

\* the database as the variables hold it
database == Store(schema, todos, users, nextId, notified, seeding.seq)

\* initializeDatabase(retries) up to its first await: the schema file is
\* read and split, and the loop is entered if it has a round to make
enterInitialize(caller, retries, readFails) ==
    IF readFails
    THEN Boot(caller, "rejected", retries, 0, 0, 0, <<>>, "ENOENT", "down", <<>>, 0)
    ELSE IF 0 < retries
         THEN Boot(caller, "connect", retries, 0, 0, 1, <<>>, "", "down",
                   <<"connecting">>, 0)
         ELSE Boot(caller, "resolved", retries, 0, 0, 0, <<>>, "", "down", <<>>, 0)

\* variant: the last round is taken to be the one after the last
lastAttemptOneLate(i, retries) == i = retries

\* if (i === retries - 1)
lastAttempt(i, retries) == i = retries - 1

\* variant: the error of the last attempt is logged and the call returns
attemptFailedSwallows(b, m) ==
    IF lastAttempt(b.i, b.retries)
    THEN [b EXCEPT !.phase = "resolved", !.stmt = 0, !.errs = Append(b.errs, m)]
    ELSE [b EXCEPT !.phase = "delay", !.stmt = 0, !.errs = Append(b.errs, m),
                   !.delays = b.delays + 1]

\* variant: the next attempt is made at once, without the delay
attemptFailedRetriesAtOnce(b, m) ==
    IF lastAttempt(b.i, b.retries)
    THEN [b EXCEPT !.phase = "rejected", !.stmt = 0,
                   !.errs = Append(b.errs, m), !.thrown = m]
    ELSE [b EXCEPT !.phase = "connect", !.stmt = 0, !.errs = Append(b.errs, m),
                   !.i = b.i + 1, !.attempts = b.attempts + 1,
                   !.clients = Append(b.clients, "connecting")]

\* the catch block of an attempt that failed with error m: the error is
\* rethrown, or the delay is awaited
attemptFailed(b, m) ==
    IF lastAttempt(b.i, b.retries)
    THEN [b EXCEPT !.phase = "rejected", !.stmt = 0,
                   !.errs = Append(b.errs, m), !.thrown = m]
    ELSE [b EXCEPT !.phase = "delay", !.stmt = 0, !.errs = Append(b.errs, m),
                   !.delays = b.delays + 1]

\* a call of initializeDatabase is in progress
Running == boot.phase \in {"connect", "query", "delay"}

\* the call has returned or thrown
Settled == boot.phase \in {"resolved", "rejected"}

\* no call of initializeDatabase is in progress and no server is starting
Idle ==
    \/ boot.phase = "off"
    \/ boot.server \in {"listening", "exited"}
    \/ boot.caller = "direct" /\ boot.phase \in {"resolved", "rejected"}

\* a process is started: startServer calls initializeDatabase()
startServer ==
    /\ Idle
    /\ \E readFails \in BOOLEAN :
          boot' = enterInitialize("startServer", defaultRetries, readFails)
    /\ UNCHANGED <<pending, started, todos, nextId, now, last, notified, authVars, schema, seeding>>

\* initializeDatabase(retries, delay) called on its own, as the tests do
initializeDatabaseCall(retries) ==
    /\ Idle
    /\ \E readFails \in BOOLEAN :
          boot' = enterInitialize("direct", retries, readFails)
    /\ UNCHANGED <<pending, started, todos, nextId, now, last, notified, authVars, schema, seeding>>

\* pool.connect() resolves: the first statement is sent
connectResolves ==
    /\ boot.phase = "connect"
    /\ boot' = [boot EXCEPT !.phase = "query", !.stmt = 1,
                            !.clients[boot.attempts] = "held"]
    /\ UNCHANGED <<pending, started, todos, nextId, now, last, notified, authVars, schema, seeding>>

\* pool.connect() rejects with m
connectRejects(m) ==
    /\ boot.phase = "connect"
    /\ boot' = attemptFailed([boot EXCEPT !.clients[boot.attempts] = "none"], m)
    /\ UNCHANGED <<pending, started, todos, nextId, now, last, notified, authVars, schema, seeding>>

\* client.query(statement) resolves: the statement has taken effect, and
\* the next one is sent or the client is released and the call returns
queryResolves ==
    /\ boot.phase = "query"
    /\ LET db == execute(statements[boot.stmt], database) IN
       /\ schema' = db.schema
       /\ todos' = db.todos
       /\ users' = db.users
       /\ nextId' = db.nextId
       /\ notified' = db.notified
       /\ seeding' = [seeding EXCEPT !.seq = db.userSeq]
    /\ boot' = IF boot.stmt < Len(statements)
               THEN [boot EXCEPT !.stmt = boot.stmt + 1]
               ELSE [boot EXCEPT !.phase = "resolved", !.stmt = 0,
                                 !.clients[boot.attempts] = "released"]
    /\ UNCHANGED <<pending, started, now, last, issued, gate, login>>

\* client.query(statement) rejects with m: the statement has no effect,
\* and the catch block does not release the client
queryRejects(m) ==
    /\ boot.phase = "query"
    /\ boot' = attemptFailed(boot, m)
    /\ UNCHANGED <<pending, started, todos, nextId, now, last, notified, authVars, schema, seeding>>

\* the delay between two attempts is over: i++, and the next round of the
\* loop calls pool.connect() if there is one
delayElapsed ==
    /\ boot.phase = "delay"
    /\ boot' = IF boot.i + 1 < boot.retries
               THEN [boot EXCEPT !.phase = "connect", !.i = boot.i + 1,
                                 !.attempts = boot.attempts + 1,
                                 !.clients = Append(boot.clients, "connecting")]
               ELSE [boot EXCEPT !.phase = "resolved", !.i = boot.i + 1]
    /\ UNCHANGED <<pending, started, todos, nextId, now, last, notified, authVars, schema, seeding>>

\* startServer after `await initializeDatabase()`: app.listen
listen ==
    /\ boot.caller = "startServer"
    /\ boot.phase = "resolved"
    /\ boot.server = "down"
    /\ boot' = [boot EXCEPT !.server = "listening"]
    /\ UNCHANGED <<pending, started, todos, nextId, now, last, notified, authVars, schema, seeding>>

\* startServer's catch: process.exit(1)
exit ==
    /\ boot.caller = "startServer"
    /\ boot.phase = "rejected"
    /\ boot.server = "down"
    /\ boot' = [boot EXCEPT !.server = "exited"]
    /\ UNCHANGED <<pending, started, todos, nextId, now, last, notified, authVars, schema, seeding>>

\* the databases a process is started on: a new one, or one that earlier
\* runs have initialized, seeded and added an item to
Stores ==
    {Store({}, {}, {}, 1, {}, 1)}
    \cup {Store(AllObjects, t, u, Cardinality(t) + 1, {}, Cardinality(u) + 1) :
             t \in {{}, {Row(1, <<"a">>, 0)}}, u \in {{}, {DefaultUser}}}

InitStart ==
    /\ boot = Off
    /\ \E db \in Stores :
          /\ schema = db.schema
          /\ todos = db.todos
          /\ users = db.users
          /\ nextId = db.nextId
          /\ notified = db.notified
          /\ seeding = Seeding(db.userSeq)
    /\ pending = {}
    /\ started = NoneStarted
    /\ now = 0
    /\ last = Exchange(NoPayload, Http(0, NullResponse), FALSE)
    /\ issued = {}
    /\ gate = Gate(NoHeader, Outcome("none", NoUser, ""))
    /\ login = LoginExchange("", "", 0, "", NoUser, NoToken, FALSE)

\* the steps in which a call of initializeDatabase in progress goes on
Settle ==
    \/ connectResolves
    \/ \E m \in ConnectErrors : connectRejects(m)
    \/ queryResolves
    \/ \E m \in QueryErrors : queryRejects(m)
    \/ delayElapsed

(* ---- seedDefaultUser, await by await ---- *)

\* the rows of users with the default username
defaultRows(us) == {u \in us : u.username = DEFAULT_USERNAME}

seedFrame == UNCHANGED <<pending, started, todos, nextId, now, last, notified,
                          issued, gate, login, boot, schema>>

\* seedDefaultUser is called: the SELECT is sent
seedCall(r) ==
    /\ seeding.runs[r].phase \in {"idle", "returned"}
    /\ seeding' = [seeding EXCEPT !.runs[r] = SeedRun("select", "")]
    /\ UNCHANGED users
    /\ seedFrame

\* the SELECT resolves: the run is over if it has a row, otherwise
\* bcrypt.hash is called and the run waits for the hash
selectResolves(r) ==
    /\ seeding.runs[r].phase = "select"
    /\ "users" \in schema
    /\ seeding' = [seeding EXCEPT !.runs[r] =
                      IF defaultRows(users) = {} THEN SeedRun("hash", "")
                      ELSE SeedRun("returned", "exists")]
    /\ UNCHANGED users
    /\ seedFrame

\* bcrypt.hash resolves: the INSERT is sent with the hash
hashResolves(r) ==
    /\ seeding.runs[r].phase = "hash"
    /\ seeding' = [seeding EXCEPT !.runs[r] = SeedRun("insert", "")]
    /\ UNCHANGED users
    /\ seedFrame

\* the SELECT or the INSERT rejects because the store fails or has no
\* users table, or bcrypt.hash rejects: the catch block logs the error and
\* the run returns; after a rejected hash no INSERT is sent
seedQueryRejects(r) ==
    /\ seeding.runs[r].phase \in {"select", "hash", "insert"}
    /\ seeding' = [seeding EXCEPT !.runs[r] = SeedRun("returned", "logged")]
    /\ UNCHANGED users
    /\ seedFrame

\* variant: users.username is not UNIQUE
insertSettlesNotUnique(r) ==
    /\ seeding.runs[r].phase = "insert"
    /\ "users" \in schema
    /\ seeding' = [seeding EXCEPT !.runs[r] = SeedRun("returned", "created"),
                                  !.seq = seeding.seq + 1]
    /\ users' = users \cup {UserRow(seeding.seq, DEFAULT_USERNAME, DEFAULT_PASSWORD)}
    /\ seedFrame

\* the INSERT is served: it takes a value of users_id_seq, and inserts the
\* row, or is rejected by the UNIQUE constraint on username, which the
\* catch block logs
insertSettles(r) ==
    /\ seeding.runs[r].phase = "insert"
    /\ "users" \in schema
    /\ IF defaultRows(users) = {}
       THEN /\ users' = users \cup {UserRow(seeding.seq, DEFAULT_USERNAME,
                                             DEFAULT_PASSWORD)}
            /\ seeding' = [seeding EXCEPT !.runs[r] = SeedRun("returned", "created"),
                                          !.seq = seeding.seq + 1]
       ELSE /\ UNCHANGED users
            /\ seeding' = [seeding EXCEPT !.runs[r] = SeedRun("returned", "logged"),
                                          !.seq = seeding.seq + 1]
    /\ seedFrame

\* an initialized database before or after the default user was seeded
InitSeed ==
    /\ \E us \in {{}, {DefaultUser}} :
          /\ users = us
          /\ seeding = Seeding(Cardinality(us) + 1)
    /\ pending = {}
    /\ started = NoneStarted
    /\ todos = {}
    /\ nextId = 1
    /\ now = 0
    /\ last = Exchange(NoPayload, Http(0, NullResponse), FALSE)
    /\ notified = {}
    /\ issued = {}
    /\ gate = Gate(NoHeader, Outcome("none", NoUser, ""))
    /\ login = LoginExchange("", "", 0, "", NoUser, NoToken, FALSE)
    /\ boot = Listening
    /\ schema = AllObjects

NextSeed ==
    \/ \E r \in 1..MaxSeeds : seedCall(r)
    \/ \E r \in 1..MaxSeeds : selectResolves(r)
    \/ \E r \in 1..MaxSeeds : hashResolves(r)
    \/ \E r \in 1..MaxSeeds : seedQueryRejects(r)
    \/ \E r \in 1..MaxSeeds : insertSettles(r)

SpecSeed == InitSeed /\ [][NextSeed]_vars

(* ---- the start of the process, with the seeding of the user ---- *)

NextStart ==
    \/ startServer
    \/ \E n \in 0..MaxRetries : initializeDatabaseCall(n)
    \/ connectResolves
    \/ \E m \in ConnectErrors : connectRejects(m)
    \/ queryResolves
    \/ \E m \in QueryErrors : queryRejects(m)
    \/ delayElapsed
    \/ listen
    \/ exit
    \/ seedCall(1)
    \/ selectResolves(1)
    \/ hashResolves(1)
    \/ seedQueryRejects(1)
    \/ insertSettles(1)

SpecStart == InitStart /\ [][NextStart]_vars

\* every promise of the store settles and every timer fires
SpecStartFair == SpecStart /\ WF_vars(Settle)

(* ---- /auth/login and /rpc while the store is initialized and seeded ---- *)

\* the calls of /rpc, and the logins of the default user, on a store that
\* stays as it is
NextAuth ==
    \/ \E h \in Headers, p \in AuthPayloads : Rpc(h, p) /\ UNCHANGED startVars
    \/ \E m \in AuthFaults : rpcSelectSettles(m) /\ UNCHANGED startVars
    \/ \E q \in pending : AddReply(q) /\ now' <= MaxNow /\ UNCHANGED <<authVars, startVars>>
    \/ \E q \in pending : QueryFault(q) /\ UNCHANGED <<authVars, startVars>>
    \/ Login(DEFAULT_USERNAME, DEFAULT_PASSWORD) /\ UNCHANGED startVars
    \/ loginSelectSettles(NoFault) /\ UNCHANGED startVars
    \/ loginCompareSettles /\ UNCHANGED startVars
    \/ Tick /\ UNCHANGED startVars

SpecAuth == Init /\ [][NextAuth]_vars

\* the body sent to /rpc in the runs in which the store is initialized again
RestartPayloads == {Req("todo.add", "n1", Params(Str(<<" ", "a", " ">>), Undefined))}

\* initializeDatabase is called with one attempt while the server runs (no
\* second attempt, so no delay), and seedDefaultUser by one caller; their
\* steps interleave with the calls of /rpc and /auth/login.  No hour passes
\* in these runs
NextRestart ==
    \/ \E h \in Headers, p \in RestartPayloads : Rpc(h, p) /\ UNCHANGED startVars
    \/ \E m \in AuthFaults : rpcSelectSettles(m) /\ UNCHANGED startVars
    \/ \E q \in pending : AddReply(q) /\ now' = now /\ UNCHANGED <<authVars, startVars>>
    \/ \E q \in pending : QueryFault(q) /\ UNCHANGED <<authVars, startVars>>
    \/ \E w \in Passwords : Login(DEFAULT_USERNAME, w) /\ UNCHANGED startVars
    \/ loginSelectSettles(NoFault) /\ UNCHANGED startVars
    \/ loginCompareSettles /\ UNCHANGED startVars
    \/ initializeDatabaseCall(1)
    \/ connectResolves
    \/ \E m \in ConnectErrors : connectRejects(m)
    \/ queryResolves
    \/ \E m \in QueryErrors : queryRejects(m)
    \/ seedCall(1)
    \/ selectResolves(1)
    \/ hashResolves(1)
    \/ seedQueryRejects(1)
    \/ insertSettles(1)

SpecRestart == Init /\ [][NextRestart]_vars

\* /auth/login alone, with every username and password
NextLogin ==
    \/ \E u \in Usernames, w \in Passwords : Login(u, w) /\ UNCHANGED startVars
    \/ \E m \in AuthFaults : loginSelectSettles(m) /\ UNCHANGED startVars
    \/ loginCompareSettles /\ UNCHANGED startVars
    \/ initializeDatabaseCall(1)
    \/ connectResolves
    \/ \E m \in ConnectErrors : connectRejects(m)
    \/ queryResolves
    \/ \E m \in QueryErrors : queryRejects(m)
    \/ seedCall(1)
    \/ selectResolves(1)
    \/ hashResolves(1)
    \/ seedQueryRejects(1)
    \/ insertSettles(1)

SpecLogin == Init /\ [][NextLogin]_vars

(* ---- properties ---- *)

\* the exchange in `last` is a real one
Answered == last.req.kind # "none"

HasBody == last.body.members # {}

IsError == "error" \in last.body.members

IsResult == "result" \in last.body.members

\* the envelope conditions, stated on the members of the payload
NotAnObject(p) == p.kind \in {"garbage", "primitive", "array"}

BadEnvelope(p) == p.jsonrpc # "2.0" \/ p.method = "absent" \/ p.extra # "none"

\* the method member is a string
StringMethod(p) == p.method \notin {"absent", "number", "unconvertible"}

\* the method member is a string that names no registered method
Unregistered(p) ==
    /\ StringMethod(p)
    /\ p.method \notin {"mcp.discover", "todo.list", "todo.add", "todo.remove"}

BlankText(t) == \A i \in 1..Len(t) : t[i] = " "

BadParams(p) ==
    \/ p.method = "todo.add"
       /\ (~p.params.present \/ p.params.text.ty # "string" \/ BlankText(p.params.text.s))
    \/ p.method = "todo.remove"
       /\ (~p.params.present \/ p.params.id.ty # "number")

WellFormed(p) == p.kind = "object" /\ ~BadEnvelope(p)

UsableId(i) == i \in {"null", "n1", "n2", "s1"}

\* C1 as claimed: an error response carries the code of the first check
\* that fails, in the order ParseError (the body is not JSON),
\* InvalidRequest (the body is an array or a primitive, or an object that
\* is no envelope: no "2.0", no method, a method that is not a string, a
\* result or error member), MethodNotFound (the method is a string that
\* names no registered method), then the handler's InvalidParams, then
\* NotFound or a fault of the store.
C1_Claimed ==
    (Answered /\ IsError) =>
        LET p == last.req
            c == last.body.code IN
        IF p.kind = "garbage" THEN c = -32700
        ELSE IF p.kind \in {"primitive", "array"} THEN c = -32600
        ELSE IF BadEnvelope(p) \/ ~StringMethod(p) THEN c = -32600
        ELSE IF Unregistered(p) THEN c = -32601
        ELSE IF BadParams(p) THEN c = -32602
        ELSE \/ c = 1001 /\ p.method = "todo.remove" /\ ~last.fault
             \/ c = 0 /\ last.fault

\* C2 as claimed: an object payload without `method` is answered with
\* -32600 and id null, whether or not it has an id of its own.
C2_Claimed ==
    (Answered /\ last.req.kind = "object" /\ last.req.method = "absent") =>
        /\ IsError
        /\ last.body.code = -32600
        /\ last.body.id = "null"

\* C2 amended: an object payload without `method` is answered with -32600;
\* the response id is the payload's own id when that is a string, a number
\* or null, and null otherwise (no id member, or an id of another type).
C2_InvalidRequestId ==
    (Answered /\ last.req.kind = "object" /\ last.req.method = "absent") =>
        /\ last.status = 200
        /\ IsError
        /\ last.body.code = -32600
        /\ last.body.id = (IF UsableId(last.req.id) THEN last.req.id ELSE "null")

C2_Witness ==
    /\ last.req.kind = "object"
    /\ last.req.method = "absent"
    /\ last.req.id = "n1"
    /\ last.body.code = -32600
    /\ last.body.id = "n1"

\* C3 as claimed: an array or primitive payload is answered with -32600
\* and id null, not with ParseError.
C3_Claimed ==
    (Answered /\ last.req.kind \in {"array", "primitive"}) =>
        /\ last.body.code = -32600
        /\ last.body.id = "null"

\* C3 amended: an array or primitive payload is answered with ParseError
\* (-32700), id null and status 200, never with InvalidRequest.
C3_NonObjectIsParseError ==
    (Answered /\ last.req.kind \in {"array", "primitive"}) =>
        /\ last.status = 200
        /\ IsError
        /\ last.body.code = -32700
        /\ last.body.id = "null"

C3_Witness ==
    /\ last.req.kind = "array"
    /\ last.body.code = -32700
    /\ last.status = 200

\* C4: a request whose `method` is present but not a string is answered
\* with -32600 and id null, never with MethodNotFound.
C4_Claimed ==
    (Answered /\ last.req.kind = "object" /\ last.req.method = "number") =>
        /\ IsError
        /\ last.body.code = -32600
        /\ last.body.id = "null"

\* C5 as claimed: a well-formed request with an id whose method is a
\* string that names no registered method is answered with -32601 and its
\* own id, and never reaches a handler's store query.
C5_Claimed ==
    /\ (Answered /\ WellFormed(last.req) /\ last.req.id # "absent"
            /\ Unregistered(last.req)) =>
          /\ last.status = 200
          /\ IsError
          /\ ~IsResult
          /\ last.body.code = -32601
          /\ last.body.id = last.req.id
    /\ \A q \in pending : ~Unregistered(q)

\* C6 as claimed: the response id equals the request id, and is null
\* exactly for unparseable payloads and malformed envelopes.
C6_Claimed ==
    (Answered /\ HasBody) =>
        IF NotAnObject(last.req) \/ BadEnvelope(last.req)
        THEN last.body.id = "null"
        ELSE last.body.id = last.req.id /\ last.body.id # "null"

\* C6 amended: the response id equals the id member of the request it
\* answers whenever the request is an object that has one (for an invalid
\* envelope only when that id is a string, a number or null); it is null
\* for unparseable and non-object payloads and for invalid envelopes
\* without such an id; with other requests in flight this still holds.
C6_ResponseId ==
    (Answered /\ HasBody) =>
        IF NotAnObject(last.req) THEN last.body.id = "null"
        ELSE IF BadEnvelope(last.req)
             THEN last.body.id = (IF UsableId(last.req.id) THEN last.req.id ELSE "null")
        ELSE last.body.id = last.req.id

C6_Witness ==
    /\ last.req.method = "todo.remove"
    /\ last.req.id = "n1"
    /\ HasBody
    /\ last.body.id = "n1"
    /\ \E q \in pending : q.id = "n2"

\* C7: a response body has exactly one of `result` and `error`, and a 200
\* always has a body.
C7_ResultXorError ==
    Answered =>
        /\ HasBody => (IsResult # IsError)
        /\ last.status = 200 <=> HasBody

C7_Witness ==
    /\ last.fault
    /\ HasBody
    /\ IsError
    /\ ~IsResult

\* C8: a todo.add without id and with valid text is answered 204 without a
\* body and, when the store does not fail, its item is stored; a list then
\* returns every such item still in the store.
C8_NotificationApplied ==
    /\ (Answered /\ WellFormed(last.req) /\ last.req.method = "todo.add"
            /\ last.req.id = "absent" /\ ~BadParams(last.req)) =>
          /\ last.status = 204
          /\ ~HasBody
          /\ ~last.fault =>
                \E r \in todos : r.id = nextId - 1 /\ r.id \in notified
                                 /\ r.text = <<"a">>
    /\ (Answered /\ last.req.method = "todo.list" /\ IsResult) =>
          \A r \in todos :
             r.id \in notified =>
                \E k \in 1..Len(last.body.result.rows) : last.body.result.rows[k] = r

C8_Witness ==
    /\ last.req.method = "todo.list"
    /\ IsResult
    /\ \E k \in 1..Len(last.body.result.rows) :
          last.body.result.rows[k].id \in notified

C11_Claimed ==
    (Answered /\ last.fault /\ last.req.id # "absent") =>
        /\ IsError
        /\ last.body.code \in {-32000, -32603}

\* C12 as claimed: the response to a request that hits a fault of the
\* store is the same whatever the detail (message) of the fault.
C12_Claimed ==
    (Answered /\ last.fault /\ HasBody) =>
        \A m \in FaultMessages :
            last.body = mapErrorToJSONRPCErrorResponseIfNecessary(
                            last.req.id, StoreError(m))

\* t is s without its leading and trailing blanks
IsTrimOf(t, s) ==
    /\ t # <<>>
    /\ t[1] # " "
    /\ t[Len(t)] # " "
    /\ \E i \in 1..Len(s) :
          /\ i + Len(t) - 1 <= Len(s)
          /\ t = SubSeq(s, i, i + Len(t) - 1)
          /\ \A k \in 1..Len(s) : (k < i \/ k > i + Len(t) - 1) => s[k] = " "

\* C20: a todo.add whose text is a string with a non-blank character
\* stores one new item whose text is the input without its leading and
\* trailing blanks and returns that item; a todo.add whose text is empty
\* or all blanks is answered with InvalidParams (-32602) when it has an id
\* and stores nothing.
C20_AddTrims ==
    /\ [][(/\ last' # last
           /\ last'.req.method = "todo.add"
           /\ last'.req.params.present
           /\ last'.req.params.text.ty = "string"
           /\ ~last'.fault)
          =>
          IF BlankText(last'.req.params.text.s)
          THEN /\ todos' = todos
               /\ last'.req.id # "absent" =>
                     /\ "error" \in last'.body.members
                     /\ last'.body.code = -32602
          ELSE \E row \in todos' \ todos :
                  /\ todos' = todos \cup {row}
                  /\ IsTrimOf(row.text, last'.req.params.text.s)
                  /\ last'.req.id # "absent" =>
                        /\ "result" \in last'.body.members
                        /\ last'.body.result.rows = <<row>>]_vars

C20_Witness ==
    /\ last.req.method = "todo.add"
    /\ last.req.id = "n1"
    /\ last.req.params.text.s = <<" ", "a", " ">>
    /\ IsResult
    /\ last.body.result.rows[1].text = <<"a">>
    /\ last.body.result.rows[1] \in todos

(* ---- steps of the runs with the token check ---- *)

\* the store answers a suspended request
ReplyStep == pending' # pending /\ pending' \subseteq pending

\* a call of /rpc leaves the middleware: it is answered there or it
\* reaches the router
RpcStep ==
    /\ ~ReplyStep
    /\ gate'.phase = "done"
    /\ (last' # last \/ pending' # pending \/ gate' # gate)

\* the clock when the token of the call of an RpcStep was verified
VerifiedAt == IF gate.phase = "select" THEN gate.at ELSE now

\* the body of the call received in an RpcStep
RpcReq == IF pending' # pending THEN CHOOSE q \in pending' \ pending : TRUE
          ELSE last'.req

\* a call of /auth/login is answered
LoginStep == login' # login /\ login'.phase = "answered"

\* the users query of a call of /auth/login is answered with a row
LoginReadStep == login.phase = "select" /\ login'.phase = "compare"

\* the header carries a token signed with the server's key that has not
\* expired
ValidBearer(h, clock) ==
    /\ h.scheme = "bearer"
    /\ h.token.key = jwtSecret
    /\ clock < h.token.exp

\* the body is one express.json() cannot parse
Unparseable(p) == p.kind \in {"garbage", "primitive"}

\* nothing was dispatched and the store is as before
NotDispatched == UNCHANGED <<pending, started, todos, nextId, notified>>

\* C13: a /rpc call without a valid bearer token (no header, a string that
\* is no token, a signature of another key, an expired token) is answered
\* with 401 and no JSON body, is not dispatched and leaves the store
\* unchanged, whatever its body and its method.
C13_NoTokenRejected ==
    [][(RpcStep /\ ~ValidBearer(gate'.header, VerifiedAt)) =>
          /\ last'.req = RpcReq
          /\ last'.status = 401
          /\ last'.body.members = {}
          /\ gate'.outcome = "fail"
          /\ NotDispatched]_vars

C13_Witness ==
    /\ gate.header.token \in issued
    /\ gate.header.token.exp <= now
    /\ gate.outcome = "fail"
    /\ last.req.method = "todo.add"
    /\ last.status = 401
    /\ todos = {}

\* C14: a /rpc call without a valid token whose body is unparseable or is
\* not a valid request envelope is answered with the 401 of the token
\* check and never with a response that carries -32700 or -32600.
C14_TokenBeforePayload ==
    [][(/\ RpcStep
        /\ ~ValidBearer(gate'.header, VerifiedAt)
        /\ (NotAnObject(RpcReq) \/ BadEnvelope(RpcReq)))
       =>
          /\ last'.req = RpcReq
          /\ last'.status = 401
          /\ "error" \notin last'.body.members
          /\ last'.body.code \notin {-32700, -32600}
          /\ gate'.outcome = "fail"
          /\ NotDispatched]_vars

C14_Witness ==
    /\ gate.header = NoHeader
    /\ gate.outcome = "fail"
    /\ last.req.kind = "garbage"
    /\ last.status = 401
    /\ last.body.members = {}

C16_Claimed ==
    [][(/\ last' # last
        /\ (ReplyStep \/ (RpcStep /\ ValidBearer(gate'.header, VerifiedAt))))
       =>
          /\ last'.status \in {200, 204}
          /\ last'.status = 200 <=> last'.body.members # {}]_vars

\* C16 amended: a response to a /rpc call that carries a valid token has
\* status 200 with a response envelope or status 204 without a body, and
\* a fault of the store in a handler is reported in the envelope under
\* status 200, with these exceptions.  Status 500 with {error: {message}}
\* answers a call whose token check could not query the users table and a
\* call whose body express.json() refuses for its size; status 500 with an
\* envelope of code -32000 answers a call for which server.receive
\* rejects (a method that cannot be a property key); and 401 answers a
\* call whose token names no row of the users table.  None of these calls
\* is dispatched.
C16_StatusOfAuthenticated ==
    [][(/\ last' # last
        /\ (ReplyStep \/ (RpcStep /\ ValidBearer(gate'.header, VerifiedAt))))
       =>
          IF RpcStep /\ gate'.outcome = "error"
          THEN /\ last'.status = 500
               /\ last'.body.members = {"error"}
               /\ last'.body.message = "request entity too large"
                     => RpcReq.kind = "oversize"
               /\ NotDispatched
          ELSE IF RpcStep /\ gate'.outcome = "fail"
          THEN /\ last'.status = 401
               /\ ~\E u \in users : u.id = gate'.header.token.id
               /\ NotDispatched
          ELSE IF RpcStep /\ RpcReq.method = "unconvertible"
          THEN /\ last'.status = 500
               /\ "error" \in last'.body.members
               /\ last'.body.code = -32000
               /\ last'.body.id = RpcReq.id
               /\ NotDispatched
          ELSE /\ last'.status \in {200, 204}
               /\ last'.status = 200 <=> last'.body.members # {}
               /\ last'.fault /\ last'.req.id # "absent" =>
                     last'.status = 200 /\ "error" \in last'.body.members]_vars

C16_Witness ==
    /\ gate.outcome = "success"
    /\ gate.header.token \in issued
    /\ last.req.method = "unconvertible"
    /\ last.req.id = "n1"
    /\ last.status = 500
    /\ last.body.code = -32000
    /\ last.body.id = "n1"

\* C17 as claimed: whether a token is accepted depends only on its
\* signature and its expiry, so a token with the server's signature that
\* has not expired is accepted in every state of the store.
C17_Claimed ==
    [][(/\ RpcStep
        /\ ~Unparseable(RpcReq)
        /\ ValidBearer(gate'.header, now))
       => gate'.outcome = "success"]_vars

\* C17 amended: the token check also reads the users table.  A token with
\* the server's signature that has not expired is accepted exactly when
\* the table has a row with the token's id; without such a row the call is
\* answered 401, and when the query fails it is answered 500.  A token
\* with another signature or an expired one is rejected whatever the
\* table holds.  No other state is consulted.
C17_TokenNeedsUserRow ==
    [][(RpcStep /\ ~Unparseable(RpcReq)) =>
          LET h == gate'.header IN
          IF ~ValidBearer(h, now)
          THEN gate'.outcome = "fail" /\ last'.status = 401
          ELSE \/ /\ gate'.outcome = "error"
                  /\ last'.status = 500
                  /\ NotDispatched
               \/ /\ \E u \in users : u.id = h.token.id
                  /\ gate'.outcome = "success"
               \/ /\ ~\E u \in users : u.id = h.token.id
                  /\ gate'.outcome = "fail"
                  /\ last'.status = 401
                  /\ NotDispatched]_vars

C17_Witness ==
    /\ gate.header.token \in issued
    /\ ValidBearer(gate.header, now)
    /\ users = {}
    /\ gate.outcome = "fail"
    /\ last.status = 401

\* the users query of the login found no row, or the password is not the
\* one the row it found was made from
WrongCredentials(x) ==
    x.row = NoRow \/ ~bcryptCompare(x.password, x.row.password_hash)

\* C18: a login that fails because the username is unknown and one that
\* fails because the password is wrong get the same response: status 401,
\* the message "Incorrect username or password.", no user and no token.
\* The row a login compares the password with is the row of its username
\* that the users table held when it was read.
C18_SameFailure ==
    [][/\ LoginReadStep =>
            /\ login'.row \in users
            /\ login'.row.username = login.username
       /\ (/\ LoginStep
           /\ ~login'.fault
           /\ login'.username # "" /\ login'.password # ""
           /\ WrongCredentials(login'))
          =>
             /\ login'.status = 401
             /\ login'.message = "Incorrect username or password."
             /\ login'.user = NoUser
             /\ login'.token = NoToken
             /\ login.phase = "select" =>
                   ~\E u \in users : u.username = login.username]_vars

C18_Witness ==
    /\ login.phase = "answered"
    /\ login.username = "nonexistent"
    /\ login.password = DEFAULT_PASSWORD
    /\ login.row = NoRow
    /\ \E u \in users : u.username = DEFAULT_USERNAME
    /\ login.status = 401
    /\ login.message = "Incorrect username or password."

\* the header carries a token a login has issued, not yet expired
IssuedBearer(h, clock) ==
    /\ h.scheme = "bearer"
    /\ h.token \in issued
    /\ clock < h.token.exp

\* C19 as claimed: a token issued by a successful login of user u and
\* presented before its expiry resolves to the identity {id, username} of
\* u; and a failed login issues no token.
C19_Claimed ==
    [][/\ (RpcStep /\ ~Unparseable(RpcReq) /\ IssuedBearer(gate'.header, now)) =>
            /\ gate'.outcome = "success"
            /\ gate'.user = Identity(gate'.header.token.id,
                                     gate'.header.token.username)
       /\ (LoginStep /\ login'.status # 200) =>
            /\ issued' = issued
            /\ login'.token = NoToken]_vars

\* C19 amended: a successful login of user u issues a token that carries
\* the id and username of u's row; a failed login issues none.  Presented
\* before its expiry, the token is accepted only while the users table
\* has a row with that id (401 otherwise, 500 when the query fails), and
\* it then resolves to the {id, username} of that row, which is u's and
\* never another user's.
C19_TokenIdentity ==
    [][/\ (RpcStep /\ ~Unparseable(RpcReq) /\ IssuedBearer(gate'.header, now)) =>
            LET t == gate'.header.token IN
            \/ /\ gate'.outcome = "success"
               /\ gate'.user = Identity(t.id, t.username)
               /\ \E u \in users : u.id = t.id /\ u.username = t.username
            \/ /\ gate'.outcome = "fail"
               /\ gate'.user = NoUser
               /\ ~\E u \in users : u.id = t.id
            \/ /\ gate'.outcome = "error"
               /\ gate'.user = NoUser
       /\ LoginReadStep =>
            /\ login'.row \in users
            /\ login'.row.username = login.username
       /\ (LoginStep /\ login'.status = 200) =>
            /\ ~WrongCredentials(login')
            /\ login'.row = login.row
            /\ login'.row.username = login'.username
            /\ login'.user = Identity(login'.row.id, login'.row.username)
            /\ login'.token.id = login'.row.id
            /\ login'.token.username = login'.row.username
            /\ login'.token.key = jwtSecret
            /\ login'.token.exp = now + TokenExpiresIn
            /\ issued' = issued \cup {login'.token}
       /\ (LoginStep /\ login'.status # 200) =>
            /\ issued' = issued
            /\ login'.token = NoToken]_vars

C19_Witness ==
    /\ login.status = 200
    /\ gate.header = Bearer(login.token)
    /\ now < login.token.exp
    /\ gate.outcome = "success"
    /\ gate.user = Identity(1, DEFAULT_USERNAME)
    /\ last.req.method = "todo.add"
    /\ IsResult

(* ---- the store across requests ---- *)

\* the store answers a todo.add with the inserted row
AddResultStep ==
    /\ ReplyStep
    /\ last'.req \in pending \ pending'
    /\ last'.req.method = "todo.add"
    /\ ~last'.fault

\* the row an AddResultStep inserted
AddedRow == CHOOSE r \in todos' \ todos : TRUE

\* C21 as claimed: the ids handed out so far are never handed out again,
\* in any sequence of operations: the sequence behind the ids never moves
\* back, and every successful add returns an id greater than every id
\* returned before and advances the sequence past it.
C21_Claimed ==
    [][/\ nextId' >= nextId
       /\ AddResultStep =>
            /\ todos' \ todos # {}
            /\ AddedRow.id >= nextId
            /\ nextId' > AddedRow.id
            /\ \A r \in todos : AddedRow.id > r.id]_vars

\* the store answers a todo.list with rows
ListResultStep ==
    /\ ReplyStep
    /\ last'.req \in pending \ pending'
    /\ last'.req.method = "todo.list"
    /\ ~last'.fault

\* C22 as claimed: todo.list returns exactly the rows of the store, oldest
\* first: a row created earlier (which has the smaller id) comes before a
\* row created later, so that two rows are in the same order in every
\* list.
C22_Claimed ==
    [][ListResultStep =>
          LET rows == last'.body.result.rows IN
          /\ {rows[i] : i \in 1..Len(rows)} = todos
          /\ Len(rows) = Cardinality(todos)
          /\ \A i, j \in 1..Len(rows) : i < j => rows[i].id < rows[j].id]_vars

\* the store answers the DELETE of a todo.remove
RemoveStep ==
    /\ ReplyStep
    /\ last'.req \in pending \ pending'
    /\ last'.req.method = "todo.remove"
    /\ ~last'.fault

\* the sequence s without the row r
RECURSIVE Without(_, _)
Without(s, r) ==
    IF s = <<>> THEN s
    ELSE IF Head(s) = r THEN Without(Tail(s), r)
    ELSE <<Head(s)>> \o Without(Tail(s), r)

\* C23 as claimed: a todo.remove whose id is the id of a row returns that
\* row and deletes exactly it: the store is one row smaller, every other
\* row is still there unchanged, and a list taken after the remove is a
\* list taken before it with that row left out, the other rows in the
\* same order.
C23_Claimed ==
    [][(RemoveStep /\ \E r \in todos : r.id = last'.req.params.id.n) =>
          \E row \in todos :
             /\ row.id = last'.req.params.id.n
             /\ todos' = todos \ {row}
             /\ Cardinality(todos') = Cardinality(todos) - 1
             /\ last'.req.id # "absent" =>
                   /\ "result" \in last'.body.members
                   /\ last'.body.result.rows = <<row>>
             /\ \A before \in selectOrdered(todos), after \in selectOrdered(todos') :
                   after = Without(before, row)]_vars

\* C24 as claimed: a todo.remove whose id is the id of a row returns the
\* row and leaves no row with that id, so that the same remove right after
\* it finds none; and a todo.remove whose id matches no row is always
\* answered with code 1001.
C24_Claimed ==
    [][(/\ ReplyStep
        /\ last'.req \in pending \ pending'
        /\ last'.req.method = "todo.remove"
        /\ last'.req.id # "absent"
        /\ \/ ~last'.fault
           \/ ~isInteger(last'.req.params.id))
       =>
          IF \E r \in todos : isInteger(last'.req.params.id)
                                /\ r.id = last'.req.params.id.n
          THEN /\ "result" \in last'.body.members
               /\ ~\E r \in todos' : r.id = last'.req.params.id.n
          ELSE /\ "error" \in last'.body.members
               /\ last'.body.code = 1001
               /\ todos' = todos]_vars

\* C25: of the todo.remove requests for one id that are in flight together,
\* the first the store serves gets the row (when the store does not fault)
\* and deletes it; a request served while no row has the id gets NotFound
\* (1001); and a deleted row never comes back, because new rows take their
\* id from the sequence, so no second request can get it.
C25_OneWinner ==
    [][/\ (RemoveStep /\ isInteger(last'.req.params.id)) =>
            LET hit == {r \in todos : r.id = last'.req.params.id.n} IN
            IF hit # {}
            THEN /\ Cardinality(hit) = 1
                 /\ todos' = todos \ hit
                 /\ last'.req.id # "absent" => last'.body.result.rows[1] \in hit
            ELSE /\ todos' = todos
                 /\ last'.req.id # "absent" =>
                       /\ "error" \in last'.body.members
                       /\ last'.body.code = 1001
       /\ \A r \in todos' \ todos : r.id = nextId /\ nextId' > nextId
       /\ nextId' >= nextId]_vars

\* a second remove of the same id was in flight when the first got the row
C25_Witness ==
    /\ last.req = Req("todo.remove", "n1", Params(Undefined, Num(1)))
    /\ IsResult
    /\ last.body.result.rows[1].id = 1
    /\ Req("todo.remove", "n2", Params(Undefined, Num(1))) \in pending
    /\ ~\E r \in todos : r.id = 1

\* params is missing, or the member the handler needs is missing or has
\* the wrong type
MissingOrMistyped(p) ==
    \/ p.method = "todo.add"
       /\ (~p.params.present \/ p.params.text.ty # "string")
    \/ p.method = "todo.remove"
       /\ (~p.params.present \/ p.params.id.ty # "number")

\* C26: a todo.add whose params or text is missing or whose text is not a
\* string, and a todo.remove whose params or id is missing or whose id is
\* not a number, is answered at once: with code -32602 and its own id when
\* it has one, with no body when it is a notification; it never becomes a
\* query of the store and leaves the rows and the id sequence as they were.
C26_InvalidParamsNoStore ==
    [][/\ \A q \in pending' : ~MissingOrMistyped(q)
       /\ (last' # last /\ WellFormed(last'.req) /\ MissingOrMistyped(last'.req)) =>
            /\ NotDispatched
            /\ ~last'.fault
            /\ last'.req.id # "absent" =>
                  /\ last'.status = 200
                  /\ "error" \in last'.body.members
                  /\ "result" \notin last'.body.members
                  /\ last'.body.code = INVALID_PARAMS
                  /\ last'.body.id = last'.req.id
            /\ last'.req.id = "absent" =>
                  /\ last'.status = 204
                  /\ last'.body.members = {}]_vars

C26_Witness ==
    /\ last.req = Req("todo.remove", "n1", Params(Undefined, Str(<<"1">>)))
    /\ last.body.code = INVALID_PARAMS
    /\ \E r \in todos : r.id = 1
    /\ \E q \in pending : q.method = "todo.add"

\* C27: mcp.discover is answered at once with a document whose method
\* names are exactly the registered methods, mcp.discover among them; it
\* never becomes a query of the store, so no fault of the store can reach
\* it, and it leaves the rows and the id sequence as they were.
C27_DiscoverRegistered ==
    [][/\ \A q \in pending' : q.method # "mcp.discover"
       /\ (last' # last /\ WellFormed(last'.req)
               /\ last'.req.method = "mcp.discover") =>
            /\ NotDispatched
            /\ ~last'.fault
            /\ UsableId(last'.req.id) =>
                  /\ last'.status = 200
                  /\ "result" \in last'.body.members
                  /\ "error" \notin last'.body.members
                  /\ last'.body.id = last'.req.id
                  /\ last'.body.result.names = methods
                  /\ "mcp.discover" \in last'.body.result.names]_vars

C27_Witness ==
    /\ last.req = Req("mcp.discover", "n1", NoParams)
    /\ IsResult
    /\ last.body.result.names = methods
    /\ \E q \in pending : q.method = "todo.list"
    /\ todos # {}

\* C28: a call of initializeDatabase(retries) connects at most `retries`
\* times; when every attempt has failed it has made exactly `retries`
\* attempts and throws the error of the last one; it returns normally only
\* when its last attempt succeeded; and every call in progress ends, by
\* returning or by throwing.  (A schema file that cannot be read is thrown
\* before the first attempt.)
C28_BoundedAttempts ==
    /\ [](/\ boot.attempts <= boot.retries
          /\ Len(boot.errs) <= boot.attempts
          /\ (boot.retries > 0 /\ Len(boot.errs) = boot.retries) =>
                /\ boot.phase = "rejected"
                /\ boot.attempts = boot.retries
                /\ boot.thrown = boot.errs[Len(boot.errs)]
          /\ (boot.phase = "rejected" /\ boot.thrown # "ENOENT") =>
                /\ boot.attempts = boot.retries
                /\ Len(boot.errs) = boot.retries
          /\ (boot.phase = "resolved" /\ boot.retries > 0) =>
                Len(boot.errs) = boot.attempts - 1)
    /\ (Running ~> Settled)

C28_Witness ==
    /\ boot.caller = "direct"
    /\ boot.phase = "rejected"
    /\ boot.retries = 2
    /\ boot.attempts = 2
    /\ boot.errs = <<"Connection failed persistently", "Query failed persistently">>
    /\ boot.thrown = "Query failed persistently"

\* C29 as claimed: a statement of schema.sql that initializeDatabase
\* executes leaves every table and index that exists, the rows of both
\* tables and the id sequence as they are, and only adds what is absent.
C29_Claimed ==
    [][boot.phase = "query" =>
          /\ schema \subseteq schema'
          /\ todos' = todos
          /\ users' = users
          /\ nextId' = nextId]_vars

\* C30: the server begins to listen only in a process whose call of
\* initializeDatabase has returned normally, its last attempt having
\* executed every statement, so that all tables and indexes exist; a
\* process whose call has thrown never listens: its only step is to exit.
C30_ListenAfterInit ==
    [][/\ (boot'.server = "listening" /\ boot.server # "listening") =>
            /\ boot.caller = "startServer"
            /\ boot.phase = "resolved"
            /\ boot.thrown = ""
            /\ Len(boot.errs) = boot.attempts - 1
            /\ schema = AllObjects
            /\ boot' = [boot EXCEPT !.server = "listening"]
       /\ (boot.caller = "startServer" /\ boot.phase = "rejected"
               /\ boot.server = "down" /\ boot' # boot) =>
            boot' = [boot EXCEPT !.server = "exited"]
       /\ ~(boot.server = "exited" /\ boot'.server = "listening")]_vars

C30_Witness ==
    /\ boot.server = "listening"
    /\ boot.caller = "startServer"
    /\ boot.errs = <<"Query failed persistently">>
    /\ boot.attempts = 2
    /\ schema = AllObjects

\* what the store would answer to the suspended request q if its statement
\* were the next one served: the id and text of the row an add inserts,
\* the row a remove deletes, or that there is no such row
outcomeOf(q, rows, seq) ==
    IF q.method = "todo.add"
    THEN [t |-> "added", id |-> seq, text |-> trim(q.params.text.s), hit |-> {}]
    ELSE LET hit == {r \in rows : r.id = q.params.id.n} IN
         [t |-> IF hit = {} THEN "not found" ELSE "removed", id |-> q.params.id.n,
          text |-> <<>>, hit |-> hit]

\* what the request served in this step was answered
delivered ==
    IF "result" \in last'.body.members
    THEN LET row == last'.body.result.rows[1] IN
         IF last'.req.method = "todo.add"
         THEN [t |-> "added", id |-> row.id, text |-> row.text, hit |-> {}]
         ELSE [t |-> "removed", id |-> row.id, text |-> <<>>, hit |-> {row}]
    ELSE [t |-> "not found", id |-> last'.req.params.id.n, text |-> <<>>, hit |-> {}]

\* q1 and q2 address different items while the sequence is at seq: two
\* removes of different ids, a remove of an id handed out before and an
\* add, or two adds
DifferentItems(q1, q2, seq) ==
    IF q1.method = "todo.remove" /\ q2.method = "todo.remove"
    THEN q1.params.id.n # q2.params.id.n
    ELSE IF q1.method = "todo.remove" THEN q1.params.id.n < seq
    ELSE IF q2.method = "todo.remove" THEN q2.params.id.n < seq
    ELSE TRUE

\* the store serves a suspended add or remove
ServedStep ==
    /\ ReplyStep
    /\ last'.req \in pending \ pending'
    /\ last'.req.method \in {"todo.add", "todo.remove"}
    /\ ~last'.fault

\* C31 as claimed: when the store serves one of two suspended requests
\* that address different items, the answer to the other is what it would
\* have been had it been served first, adds included.
C31_Claimed ==
    [][ServedStep =>
          \A q2 \in pending' :
             DifferentItems(last'.req, q2, nextId) =>
                outcomeOf(q2, todos', nextId') = outcomeOf(q2, todos, nextId)]_vars

\* C31 amended: every served request is answered from the rows and the
\* sequence as they are at that moment; serving a remove leaves the answer
\* to every other request on a different item as it was, and serving an
\* add leaves the answer to every remove of an id handed out before as it
\* was; serving an add moves the id that another suspended add will get to
\* the next one, so two adds get the ids in the order the store serves
\* them.
C31_DifferentItemsCommute ==
    [][ServedStep =>
          /\ delivered = outcomeOf(last'.req, todos, nextId)
          /\ \A q2 \in pending' :
                /\ (DifferentItems(last'.req, q2, nextId)
                       /\ ~(last'.req.method = "todo.add" /\ q2.method = "todo.add")) =>
                      outcomeOf(q2, todos', nextId') = outcomeOf(q2, todos, nextId)
                /\ (last'.req.method = "todo.add" /\ q2.method = "todo.add") =>
                      /\ outcomeOf(q2, todos', nextId').id = delivered.id + 1
                      /\ outcomeOf(q2, todos, nextId).id = delivered.id]_vars

\* a remove of row 1 has been served while an add was suspended, and the
\* row the add will insert gets the id it would have got before
C31_Witness ==
    /\ last.req = Req("todo.remove", "n1", Params(Undefined, Num(1)))
    /\ IsResult
    /\ last.body.result.rows[1].id = 1
    /\ nextId = 2
    /\ Req("todo.add", "n2", Params(Str(<<"a">>), Undefined)) \in pending

\* C32: the rows of todos change only when the store serves an add, which
\* inserts exactly one new row, or a remove that finds its row, which
\* deletes exactly that row; every other step of request handling (a
\* request answered without a store query, a list, a remove that finds
\* nothing, a request answered with an error) leaves the rows as they were.
C32_OnlyAddAndRemove ==
    [][/\ todos' # todos =>
            \/ /\ AddResultStep
               /\ \E row \in todos' \ todos :
                     /\ row.id = nextId
                     /\ todos' = todos \cup {row}
            \/ /\ RemoveStep
               /\ \E row \in todos :
                     /\ row.id = last'.req.params.id.n
                     /\ todos' = todos \ {row}
       /\ AddResultStep => Cardinality(todos') = Cardinality(todos) + 1
       /\ (last' # last
              /\ \/ "error" \in last'.body.members
                 \/ ~WellFormed(last'.req)
                 \/ last'.req.method \in {"todo.list", "mcp.discover"}
                 \/ BadParams(last'.req)) =>
            /\ todos' = todos
            /\ nextId' = nextId]_vars

\* a remove that found nothing has been answered with 1001 while the
\* store holds a row
C32_Witness ==
    /\ last.req.method = "todo.remove"
    /\ IsError
    /\ last.body.code = TODO_NOT_FOUND_ERROR_CODE
    /\ \E r \in todos : r.id = 2
    /\ Cardinality(todos) = 1

\* C33 as claimed: when a call of initializeDatabase has returned or
\* thrown, no client it acquired is still held: the client of every
\* attempt that connected has been released, and an attempt whose connect
\* failed has no client.
C33_Claimed ==
    Settled =>
        \A k \in 1..Len(boot.clients) : boot.clients[k] \in {"none", "released"}

\* C34: while an attempt executes the schema, the statement in progress
\* is the boot.stmt-th statement of the file; when it succeeds its effect
\* is applied and the next statement of the file is sent, or the call
\* returns after the last one; when it fails the attempt is over without
\* any further statement, and the next attempt sends the first statement
\* on a client of its own.
C34_StatementsInOrder ==
    [][/\ boot.phase = "query" =>
            /\ boot.stmt \in 1..Len(statements)
            /\ statements[boot.stmt] = schemaSql[2 * boot.stmt - 1]
            /\ boot.clients[boot.attempts] = "held"
       /\ (boot.phase = "query" /\ boot'.phase = "query" /\ boot' # boot) =>
            /\ boot'.stmt = boot.stmt + 1
            /\ boot'.attempts = boot.attempts
            /\ schema' = execute(schemaSql[2 * boot.stmt - 1], database).schema
            /\ todos' = execute(schemaSql[2 * boot.stmt - 1], database).todos
            /\ users' = execute(schemaSql[2 * boot.stmt - 1], database).users
       /\ (boot.phase = "query" /\ boot'.phase = "resolved") =>
            boot.stmt = Len(statements)
       /\ (boot.phase = "query" /\ boot'.phase \in {"delay", "rejected"}) =>
            /\ Len(boot'.errs) = Len(boot.errs) + 1
            /\ UNCHANGED <<schema, todos, users, nextId>>
       /\ (boot.phase = "connect" /\ boot'.phase = "query") =>
            /\ boot'.stmt = 1
            /\ boot.clients[boot.attempts] = "connecting"
            /\ boot'.clients[boot.attempts] = "held"
            /\ Len(boot.clients) = boot.attempts
       /\ (boot.phase = "delay" /\ boot'.phase = "connect") =>
            /\ boot'.attempts = boot.attempts + 1
            /\ boot'.clients = Append(boot.clients, "connecting")]_vars

\* the second attempt is at the first statement, the first attempt having
\* dropped the todos table before one of its statements failed
C34_Witness ==
    /\ boot.phase = "query"
    /\ boot.stmt = 1
    /\ boot.attempts = 2
    /\ boot.errs = <<"Query failed persistently">>
    /\ "users" \in schema
    /\ "todos" \notin schema

\* C35: one delay is waited after every failed attempt but the last one
\* the bound allows, and none after a success: while an attempt is in
\* progress the delays are one fewer than the connects, a call that
\* returns after k failed attempts has made k + 1 connects and waited k
\* delays, and a call that throws after `retries` failed attempts has
\* waited retries - 1 delays; after a delay the next step is the next
\* connect.
C35_DelayBetweenAttempts ==
    [][/\ boot.phase \in {"connect", "query"} => boot.delays = boot.attempts - 1
       /\ boot.phase = "delay" =>
            /\ boot.delays = boot.attempts
            /\ boot.delays = Len(boot.errs)
            /\ boot' # boot =>
                  /\ boot'.phase = "connect"
                  /\ boot'.attempts = boot.attempts + 1
                  /\ boot'.delays = boot.delays
       /\ (boot.phase = "resolved" /\ boot.retries > 0) =>
            /\ boot.attempts = Len(boot.errs) + 1
            /\ boot.delays = Len(boot.errs)
            /\ boot.attempts <= boot.retries
       /\ (boot.phase = "rejected" /\ boot.thrown # "ENOENT") =>
            /\ boot.delays = boot.retries - 1
            /\ boot.delays = Len(boot.errs) - 1]_vars

\* a call with bound 2 has returned after one failed attempt, two
\* connects and one delay
C35_Witness ==
    /\ boot.caller = "direct"
    /\ boot.phase = "resolved"
    /\ boot.retries = 2
    /\ boot.errs = <<"Connection failed persistently">>
    /\ boot.attempts = 2
    /\ boot.delays = 1
    /\ boot.clients = <<"none", "released">>

\* this step sends one response, to a request that is not waiting for the
\* store or to one that stops waiting in this step
OneAnswer ==
    /\ last'.status \in {200, 204}
    /\ \/ /\ pending' = pending
          /\ ~suspends(last'.req)
          /\ last'.req \notin pending
       \/ /\ last'.req \in pending
          /\ pending' = pending \ {last'.req}

\* C36: a request that does not reach the store is answered in the step
\* that receives it; a request that waits for the store has no response
\* while it waits, leaves the wait only by the one step that answers it,
\* and, every store call returning or failing in the end, does leave it;
\* no step answers two requests.
C36_RunsToCompletion ==
    /\ [][/\ last' # last => OneAnswer
          /\ pending' # pending =>
                \/ /\ last' = last
                   /\ \E p \in RunPayloads :
                         /\ p \notin pending
                         /\ suspends(p)
                         /\ pending' = pending \cup {p}
                \/ /\ OneAnswer
                   /\ last'.req \in pending]_vars
    /\ \A q \in RunPayloads : (q \in pending) ~> (q \notin pending)

\* the store has failed the query of a list, which got its one response,
\* while an add is still waiting
C36_Witness ==
    /\ last.req = Req("todo.list", "n1", NoParams)
    /\ last.fault
    /\ last.status = 200
    /\ IsError
    /\ Req("todo.add", "n1", Params(Str(<<"a">>), Undefined)) \in pending

\* a run of seedDefaultUser has returned
SeedReturned(r) == seeding.runs[r].phase = "returned"

\* C37 as claimed: once a run of seedDefaultUser has returned, exactly one
\* row of users has the default username.
C37_Claimed ==
    \A r \in 1..MaxSeeds :
        SeedReturned(r) => Cardinality(defaultRows(users)) = 1

\* C37 amended: there is never more than one row with the default
\* username; no run throws; a run that returned without a failing query
\* leaves exactly one such row, while a run whose query the store failed
\* has logged it and changed nothing; and a run that finds the row changes
\* nothing.
C37_SeedAtMostOnce ==
    [][/\ Cardinality(defaultRows(users')) <= 1
       /\ \A r \in 1..MaxSeeds :
             /\ seeding'.runs[r].phase # "threw"
             /\ seeding'.runs[r].outcome \in {"created", "exists"} =>
                   Cardinality(defaultRows(users')) = 1
             /\ (seeding.runs[r].phase = "select" /\ defaultRows(users) # {}
                    /\ seeding'.runs[r] # seeding.runs[r]) =>
                   /\ users' = users
                   /\ seeding'.seq = seeding.seq
             /\ (seeding'.runs[r].outcome = "logged"
                    /\ seeding.runs[r].outcome # "logged") => users' = users
       /\ users \subseteq users']_vars

\* two runs were in progress together on a store without the user: one
\* has created the row, the INSERT of the other was rejected and logged
C37_Witness ==
    /\ seeding.runs[1] = SeedRun("returned", "created")
    /\ seeding.runs[2] = SeedRun("returned", "logged")
    /\ seeding.seq = 3
    /\ Cardinality(defaultRows(users)) = 1

\* C38 as claimed: a call of initializeDatabase that has returned normally
\* has made an attempt that connected and executed every statement of the
\* schema, whatever its bound: the client of its last attempt was
\* released after the last statement and all tables and indexes exist.
C38_Claimed ==
    boot.phase = "resolved" =>
        /\ boot.attempts >= 1
        /\ boot.clients[boot.attempts] = "released"
        /\ schema = AllObjects

====
